---------------------------- MODULE Spec2Model ----------------------------
(***************************************************************************)
(* Prediction engine of promotion-studio: tier-migration, acquisition and  *)
(* repeat-loss predictors (src/python) and the cohort profile mixer        *)
(* (src/scripts/regenerate_data_option1.py).                               *)
(*                                                                         *)
(* Numbers are fixed point.  Prices, elasticities and percentages are in   *)
(* hundredths, coefficients in thousandths, linear predictors (utilities,  *)
(* log-adds, log-odds) in units of 1/U, probabilities in units of 1/P,     *)
(* predicted adds in units of 1/A and percentage points in units of 1/PP.  *)
(* Python values are tagged records, a dict is a function whose DOMAIN is  *)
(* the set of keys that are present.  heap holds the objects the caller    *)
(* passed by reference and the module-level state (the coefficient tables  *)
(* and the state of the random generator seeded at import, as the number   *)
(* of draws made since), as the call in progress has left them.            *)
(***************************************************************************)
EXTENDS Integers, Sequences, FiniteSets, TLC

VARIABLES pc, arg, ret, heap

vars == <<pc, arg, ret, heap>>

-----------------------------------------------------------------------------
(* Fixed-point scales *)
U == 10^5
P == 10^8
A == 10^4
PP == 10^7

(* Bounds of the explored inputs *)
MaxGapSteps == 2
MaxDiscountSteps == 2
MaxElasticity == 4
MaxPctSteps == 2
MaxSegments == 2
MaxDraws == 2

-----------------------------------------------------------------------------
(* Python values *)
None == [t |-> "none"]
ABSENT == [t |-> "absent"]
Num(n) == [t |-> "num", v |-> n]
Str(s) == [t |-> "str", v |-> s]
Dict(d) == [t |-> "dict", v |-> d]
Ok(v) == [t |-> "ok", v |-> v]
Raise(e) == [t |-> "raise", v |-> e]

(* a dict literal: the keys whose choice is not ABSENT *)
MkDict(choice) ==
    [k \in {k \in DOMAIN choice : choice[k] # ABSENT} |-> choice[k]]

(* dict.get(key, default) *)
Get(d, key, default) == IF key \in DOMAIN d THEN d[key] ELSE default

(* truth value of a Python object in a condition *)
Truthy(x) ==
    CASE x.t = "none" -> FALSE
      [] x.t = "dict" -> DOMAIN x.v # {}
      [] x.t = "num" -> x.v # 0
      [] x.t = "str" -> x.v # ""
      [] OTHER -> TRUE

(* str.lower() on the tier labels *)
Lower(s) ==
    CASE s = "Bundle" -> "bundle"
      [] s = "BASIC" -> "basic"
      [] OTHER -> s

Abs(x) == IF x < 0 THEN -x ELSE x

-----------------------------------------------------------------------------
(* Arithmetic of the numeric library, in fixed point *)

H == 10^4

(* floor(a*b / P) for a, b >= 0, without forming a*b *)
MulP(a, b) ==
    LET ah == a \div H
        al == a % H
        bh == b \div H
        bl == b % H
    IN  ah * bh + (ah * bl + al * bh + (al * bl) \div H) \div H

(* <<quotient, remainder>> of a*m by b, without forming a*m *)
RECURSIVE MulDivQR(_, _, _)
MulDivQR(a, m, b) ==
    IF m = 0 THEN <<0, 0>>
    ELSE LET h == MulDivQR(a, m \div 4, b)
             t == 4 * h[2] + (m % 4) * a
         IN  <<4 * h[1] + t \div b, t % b>>

(* floor(a*m / b); the operands are evaluated once, before the division *)
MulDiv(a, m, b) ==
    CHOOSE q \in {MulDivQR(av, mv, bv)[1] : av \in {a}, mv \in {m}, bv \in {b}} :
        TRUE

(* floor(a * m / d) for d > 0 and m >= 0, without forming a * m *)
MulFrac(a, m, d) == (a \div d) * m + ((a % d) * m) \div d

(* term - sgn-alternated tail of the series sum_k (sgn*f)^k / k!, with f in *)
(* units of 1/P and 0 <= f <= P; term is f^k / k!                           *)
RECURSIVE ExpSeries(_, _, _, _)
ExpSeries(f, k, term, sgn) ==
    IF term = 0 THEN 0
    ELSE term + sgn * ExpSeries(f, k + 1, MulP(term, f) \div (k + 1), sgn)

(* e and 1/e in units of 1/P *)
E == ExpSeries(P, 0, P, 1)
INV_E == ExpSeries(P, 0, P, -1)

(* e^(-n) in units of 1/P, e^n in units of 1/A *)
RECURSIVE PowInvE(_)
PowInvE(n) == IF n = 0 THEN P ELSE MulP(PowInvE(n - 1), INV_E)

RECURSIVE PowE(_)
PowE(n) == IF n = 0 THEN A ELSE MulP(PowE(n - 1), E)

MaxExp == 11
MinExp == 20
POW_INV_E == [n \in 0..MinExp |-> PowInvE(n)]
POW_E == [n \in 0..MaxExp |-> PowE(n)]

(* np.exp(x): x in units of 1/U, the result in units of 1/P when x <= 0    *)
(* (it underflows to 0) and in units of 1/A when x > 0                      *)
np_exp(x) ==
    IF x <= 0
    THEN LET n == (-x) \div U
             f == ((-x) % U) * (P \div U)
         IN  IF n > MinExp THEN 0
             ELSE MulP(POW_INV_E[n], ExpSeries(f, 0, P, -1))
    ELSE LET n == x \div U
             f == (x % U) * (P \div U)
         IN  MulP(ExpSeries(f, 0, P, 1), POW_E[n])

RECURSIVE SumSeq(_)
SumSeq(s) == IF s = <<>> THEN 0 ELSE Head(s) + SumSeq(Tail(s))

(* sum(f[k] for k in S) *)
RECURSIVE SumOver(_, _)
SumOver(f, S) ==
    IF S = {} THEN 0
    ELSE LET k == CHOOSE k \in S : TRUE IN f[k] + SumOver(f, S \ {k})

RECURSIVE MaxSeq(_)
MaxSeq(s) ==
    IF Len(s) = 1 THEN s[1]
    ELSE LET m == MaxSeq(Tail(s)) IN IF s[1] >= m THEN s[1] ELSE m

-----------------------------------------------------------------------------
(* Coefficient tables, in thousandths *)
BUNDLE_COEFFICIENTS ==
    [ad_supp_to_bundle |->
        [intercept |-> -2600, value_savings_pct |-> 20,
         has_content_need |-> 500, tenure_months |-> 6],
     ad_free_to_bundle |->
        [intercept |-> -500, value_savings_pct |-> 30,
         has_content_need |-> 800, tenure_months |-> 12],
     bundle_to_ad_free |->
        [intercept |-> -4000, price_pressure |-> 100, tenure_months |-> -18],
     bundle_to_ad_supp |->
        [intercept |-> -5000, price_pressure |-> 150, tenure_months |-> -25]]

BASIC_COEFFICIENTS ==
    [ad_supp_to_basic |->
        [intercept |-> -1400, price_sensitivity |-> 120,
         content_satisfaction |-> -180, tenure_months |-> -10],
     basic_to_ad_supp |->
        [intercept |-> -1200, content_need |-> 220, tenure_months |-> 15],
     ad_free_to_basic |->
        [intercept |-> -2800, price_pressure |-> 150, tenure_months |-> -18],
     basic_to_ad_free |->
        [intercept |-> -3000, content_need |-> 200, tenure_months |-> 10]]

(* the table with the price gap raising the upgrade utility *)
MIGRATION_COEFFICIENTS_2TIER_gap_attracts ==
    [upgrade |->
        [intercept |-> -1500, price_gap |-> 80,
         has_promo |-> 400, tenure_months |-> 10],
     downgrade |->
        [intercept |-> -2800, price_gap |-> 80,
         has_promo |-> -300, tenure_months |-> -15],
     cancel |->
        [intercept |-> -2500, price_gap |-> 50,
         has_promo |-> -200, tenure_months |-> -20]]

MIGRATION_COEFFICIENTS_2TIER ==
    [upgrade |->
        [intercept |-> -1500, price_gap |-> -80,
         has_promo |-> 400, tenure_months |-> 10],
     downgrade |->
        [intercept |-> -2800, price_gap |-> 80,
         has_promo |-> -300, tenure_months |-> -15],
     cancel |->
        [intercept |-> -2500, price_gap |-> 50,
         has_promo |-> -200, tenure_months |-> -20]]

(* a literal or 0/1 indicator as a feature in hundredths *)
C(x) == 100 * x

-----------------------------------------------------------------------------
(* migration_model.py *)

softmax(x) ==
    LET m == MaxSeq(x)
        exp_x == [i \in DOMAIN x |-> np_exp(x[i] - m)]
        s == SumSeq(exp_x)
    IN  [i \in DOMAIN x |-> MulDiv(exp_x[i], P, s)]

(* the bundle price test with an exclusive lower bound *)
detect_tier_config_exclusive(scenario) ==
    LET tierv == Get(scenario, "tier", Str("ad_supported"))
        new_price == Get(scenario, "new_price", Num(0))
    IN  IF tierv.t # "str" THEN Raise("AttributeError")
        ELSE LET tier == Lower(tierv.v)
             IN  IF tier = "bundle" THEN Ok("3-tier-bundle")
                 ELSE IF new_price.t # "num" THEN Raise("TypeError")
                 ELSE IF new_price.v > 1399 /\ new_price.v <= 1599
                      THEN Ok("3-tier-bundle")
                 ELSE IF tier = "basic" THEN Ok("3-tier-basic")
                 ELSE IF new_price.v >= 199 /\ new_price.v <= 399
                      THEN Ok("3-tier-basic")
                 ELSE Ok("2-tier")

detect_tier_config(scenario) ==
    LET tierv == Get(scenario, "tier", Str("ad_supported"))
        new_price == Get(scenario, "new_price", Num(0))
    IN  IF tierv.t # "str" THEN Raise("AttributeError")
        ELSE LET tier == Lower(tierv.v)
             IN  IF tier = "bundle" THEN Ok("3-tier-bundle")
                 ELSE IF new_price.t # "num" THEN Raise("TypeError")
                 ELSE IF new_price.v >= 1399 /\ new_price.v <= 1599
                      THEN Ok("3-tier-bundle")
                 ELSE IF tier = "basic" THEN Ok("3-tier-basic")
                 ELSE IF new_price.v >= 199 /\ new_price.v <= 399
                      THEN Ok("3-tier-basic")
                 ELSE Ok("2-tier")


(* the indicator set by the presence of the key *)
has_promo_of_key_present(scenario) ==
    IF "promotion" \in DOMAIN scenario THEN 1 ELSE 0

(* 1 if scenario.get('promotion') else 0 *)
has_promo_of(scenario) ==
    IF Truthy(Get(scenario, "promotion", None)) THEN 1 ELSE 0

avg_tenure == 12

predict_3tier_bundle(scenario) ==
    LET has_promo == has_promo_of(scenario)
        savings_pct == 2100
        B == BUNDLE_COEFFICIENTS
        M == MIGRATION_COEFFICIENTS_2TIER
        (* from ad_supported: stay, to ad_free, to bundle, cancel *)
        u_stay_as == 0
        u_to_af == M.upgrade.intercept * 100
                   + M.upgrade.price_gap * 300
                   + M.upgrade.has_promo * C(has_promo)
                   + M.upgrade.tenure_months * C(avg_tenure)
        u_to_bundle == B.ad_supp_to_bundle.intercept * 100
                       + B.ad_supp_to_bundle.value_savings_pct * savings_pct
                       + B.ad_supp_to_bundle.has_content_need * 15
                       + B.ad_supp_to_bundle.tenure_months * C(avg_tenure)
        u_cancel_as == M.cancel.intercept * 100
                       + M.cancel.has_promo * C(has_promo)
                       + M.cancel.tenure_months * C(avg_tenure)
        probs_as == softmax(<<u_stay_as, u_to_af, u_to_bundle, u_cancel_as>>)
        (* from ad_free: stay, to bundle, to ad_supported, cancel *)
        u_stay_af == 0
        u_af_to_bundle == B.ad_free_to_bundle.intercept * 100
                          + B.ad_free_to_bundle.value_savings_pct * savings_pct
                          + B.ad_free_to_bundle.has_content_need * 45
                          + B.ad_free_to_bundle.tenure_months * C(avg_tenure)
        u_af_to_as == M.downgrade.intercept * 100
                      + M.downgrade.price_gap * 300
                      + M.downgrade.has_promo * C(has_promo)
                      + M.downgrade.tenure_months * C(avg_tenure)
        u_cancel_af == (M.cancel.intercept - 300) * 100
                       + M.cancel.has_promo * C(has_promo)
                       + M.cancel.tenure_months * C(avg_tenure)
        probs_af == softmax(<<u_stay_af, u_af_to_bundle, u_af_to_as, u_cancel_af>>)
        (* from bundle: stay, to ad_free, to ad_supported, cancel *)
        u_stay_bundle == 0
        u_bundle_to_af == B.bundle_to_ad_free.intercept * 100
                          + B.bundle_to_ad_free.price_pressure * 200
                          + B.bundle_to_ad_free.tenure_months * C(avg_tenure)
        u_bundle_to_as == B.bundle_to_ad_supp.intercept * 100
                          + B.bundle_to_ad_supp.price_pressure * 300
                          + B.bundle_to_ad_supp.tenure_months * C(avg_tenure)
        u_cancel_bundle == (M.cancel.intercept - 500) * 100
                           + M.cancel.has_promo * C(has_promo)
                           + M.cancel.tenure_months * C(avg_tenure)
        probs_bundle ==
            softmax(<<u_stay_bundle, u_bundle_to_af, u_bundle_to_as, u_cancel_bundle>>)
    IN  [from_ad_supported |->
            [stay |-> probs_as[1], to_ad_free |-> probs_as[2],
             to_bundle |-> probs_as[3], to_basic |-> 0, cancel |-> probs_as[4]],
         from_ad_free |->
            [stay |-> probs_af[1], to_bundle |-> probs_af[2],
             to_ad_supported |-> probs_af[3], to_basic |-> 0,
             cancel |-> probs_af[4]],
         from_bundle |->
            [stay |-> probs_bundle[1], to_ad_free |-> probs_bundle[2],
             to_ad_supported |-> probs_bundle[3], to_basic |-> 0,
             cancel |-> probs_bundle[4]],
         tier_config |-> "3-tier-bundle"]

(* the basic model with the price gap read from the scenario *)
predict_3tier_basic_scenario_gap(scenario) ==
    LET has_promo == has_promo_of(scenario)
        B == BASIC_COEFFICIENTS
        M == MIGRATION_COEFFICIENTS_2TIER
        (* from basic: stay, to ad_supported, to ad_free, cancel *)
        u_stay_basic == 0
        u_basic_to_as == B.basic_to_ad_supp.intercept * 100
                         + B.basic_to_ad_supp.content_need * 40
                         + B.basic_to_ad_supp.tenure_months * C(avg_tenure)
        u_basic_to_af == B.basic_to_ad_free.intercept * 100
                         + B.basic_to_ad_free.content_need * 20
                         + B.basic_to_ad_free.tenure_months * C(avg_tenure)
        u_cancel_basic == (M.cancel.intercept + 500) * 100
                          + M.cancel.has_promo * C(has_promo)
                          + M.cancel.tenure_months * C(avg_tenure)
        probs_basic ==
            softmax(<<u_stay_basic, u_basic_to_as, u_basic_to_af, u_cancel_basic>>)
        (* from ad_supported: stay, to ad_free, to basic, cancel *)
        u_stay_as == 0
        u_as_to_af == M.upgrade.intercept * 100
                      + M.upgrade.price_gap
                          * (Get(scenario, "ad_free_price", Num(899)).v
                             - Get(scenario, "ad_supported_price",
                                   Num(599)).v)
                      + M.upgrade.has_promo * C(has_promo)
                      + M.upgrade.tenure_months * C(avg_tenure)
        u_as_to_basic == B.ad_supp_to_basic.intercept * 100
                         + B.ad_supp_to_basic.price_sensitivity * 35
                         + B.ad_supp_to_basic.content_satisfaction * 20
                         + B.ad_supp_to_basic.tenure_months * C(avg_tenure)
        u_cancel_as == M.cancel.intercept * 100
                       + M.cancel.has_promo * C(has_promo)
                       + M.cancel.tenure_months * C(avg_tenure)
        probs_as == softmax(<<u_stay_as, u_as_to_af, u_as_to_basic, u_cancel_as>>)
        (* from ad_free: stay, to ad_supported, to basic, cancel *)
        u_stay_af == 0
        u_af_to_as == M.downgrade.intercept * 100
                      + M.downgrade.price_gap * 300
                      + M.downgrade.has_promo * C(has_promo)
                      + M.downgrade.tenure_months * C(avg_tenure)
        u_af_to_basic == B.ad_free_to_basic.intercept * 100
                         + B.ad_free_to_basic.price_pressure * 200
                         + B.ad_free_to_basic.tenure_months * C(avg_tenure)
        u_cancel_af == (M.cancel.intercept - 300) * 100
                       + M.cancel.has_promo * C(has_promo)
                       + M.cancel.tenure_months * C(avg_tenure)
        probs_af == softmax(<<u_stay_af, u_af_to_as, u_af_to_basic, u_cancel_af>>)
    IN  [from_basic |->
            [stay |-> probs_basic[1], to_ad_supported |-> probs_basic[2],
             to_ad_free |-> probs_basic[3], to_bundle |-> 0,
             cancel |-> probs_basic[4]],
         from_ad_supported |->
            [stay |-> probs_as[1], to_ad_free |-> probs_as[2],
             to_basic |-> probs_as[3], to_bundle |-> 0, cancel |-> probs_as[4]],
         from_ad_free |->
            [stay |-> probs_af[1], to_ad_supported |-> probs_af[2],
             to_basic |-> probs_af[3], to_bundle |-> 0, cancel |-> probs_af[4]],
         tier_config |-> "3-tier-basic"]

predict_3tier_basic(scenario) ==
    LET has_promo == has_promo_of(scenario)
        B == BASIC_COEFFICIENTS
        M == MIGRATION_COEFFICIENTS_2TIER
        (* from basic: stay, to ad_supported, to ad_free, cancel *)
        u_stay_basic == 0
        u_basic_to_as == B.basic_to_ad_supp.intercept * 100
                         + B.basic_to_ad_supp.content_need * 40
                         + B.basic_to_ad_supp.tenure_months * C(avg_tenure)
        u_basic_to_af == B.basic_to_ad_free.intercept * 100
                         + B.basic_to_ad_free.content_need * 20
                         + B.basic_to_ad_free.tenure_months * C(avg_tenure)
        u_cancel_basic == (M.cancel.intercept + 500) * 100
                          + M.cancel.has_promo * C(has_promo)
                          + M.cancel.tenure_months * C(avg_tenure)
        probs_basic ==
            softmax(<<u_stay_basic, u_basic_to_as, u_basic_to_af, u_cancel_basic>>)
        (* from ad_supported: stay, to ad_free, to basic, cancel *)
        u_stay_as == 0
        u_as_to_af == M.upgrade.intercept * 100
                      + M.upgrade.price_gap * 300
                      + M.upgrade.has_promo * C(has_promo)
                      + M.upgrade.tenure_months * C(avg_tenure)
        u_as_to_basic == B.ad_supp_to_basic.intercept * 100
                         + B.ad_supp_to_basic.price_sensitivity * 35
                         + B.ad_supp_to_basic.content_satisfaction * 20
                         + B.ad_supp_to_basic.tenure_months * C(avg_tenure)
        u_cancel_as == M.cancel.intercept * 100
                       + M.cancel.has_promo * C(has_promo)
                       + M.cancel.tenure_months * C(avg_tenure)
        probs_as == softmax(<<u_stay_as, u_as_to_af, u_as_to_basic, u_cancel_as>>)
        (* from ad_free: stay, to ad_supported, to basic, cancel *)
        u_stay_af == 0
        u_af_to_as == M.downgrade.intercept * 100
                      + M.downgrade.price_gap * 300
                      + M.downgrade.has_promo * C(has_promo)
                      + M.downgrade.tenure_months * C(avg_tenure)
        u_af_to_basic == B.ad_free_to_basic.intercept * 100
                         + B.ad_free_to_basic.price_pressure * 200
                         + B.ad_free_to_basic.tenure_months * C(avg_tenure)
        u_cancel_af == (M.cancel.intercept - 300) * 100
                       + M.cancel.has_promo * C(has_promo)
                       + M.cancel.tenure_months * C(avg_tenure)
        probs_af == softmax(<<u_stay_af, u_af_to_as, u_af_to_basic, u_cancel_af>>)
    IN  [from_basic |->
            [stay |-> probs_basic[1], to_ad_supported |-> probs_basic[2],
             to_ad_free |-> probs_basic[3], to_bundle |-> 0,
             cancel |-> probs_basic[4]],
         from_ad_supported |->
            [stay |-> probs_as[1], to_ad_free |-> probs_as[2],
             to_basic |-> probs_as[3], to_bundle |-> 0, cancel |-> probs_as[4]],
         from_ad_free |->
            [stay |-> probs_af[1], to_ad_supported |-> probs_af[2],
             to_basic |-> probs_af[3], to_bundle |-> 0, cancel |-> probs_af[4]],
         tier_config |-> "3-tier-basic"]

(* the utility standing for a destination the 2-tier model does not have *)
UNREACHABLE_weak == -1 * U

UNREACHABLE == -999 * U

predict_2tier(scenario) ==
    LET ad_supported_price == Get(scenario, "ad_supported_price", Num(599)).v
        ad_free_price == Get(scenario, "ad_free_price", Num(899)).v
        has_promo == has_promo_of(scenario)
        M == MIGRATION_COEFFICIENTS_2TIER
        price_gap == ad_free_price - ad_supported_price
        (* from ad_supported *)
        u_stay_as == 0
        u_upgrade == M.upgrade.intercept * 100
                     + M.upgrade.price_gap * price_gap
                     + M.upgrade.has_promo * C(has_promo)
                     + M.upgrade.tenure_months * C(avg_tenure)
        u_cancel_as == M.cancel.intercept * 100
                       + M.cancel.price_gap * price_gap
                       + M.cancel.has_promo * C(has_promo)
                       + M.cancel.tenure_months * C(avg_tenure)
        probs_as == softmax(<<u_stay_as, u_upgrade, UNREACHABLE, u_cancel_as>>)
        (* from ad_free *)
        u_stay_af == 0
        u_downgrade == M.downgrade.intercept * 100
                       + M.downgrade.price_gap * Abs(price_gap)
                       + M.downgrade.has_promo * C(has_promo)
                       + M.downgrade.tenure_months * C(avg_tenure)
        u_cancel_af == M.cancel.intercept * 100
                       + M.cancel.price_gap * Abs(price_gap)
                       + M.cancel.has_promo * C(has_promo)
                       + M.cancel.tenure_months * C(avg_tenure)
        probs_af == softmax(<<u_stay_af, UNREACHABLE, u_downgrade, u_cancel_af>>)
    IN  [from_ad_supported |->
            [stay |-> probs_as[1], to_ad_free |-> probs_as[2],
             to_bundle |-> 0, to_basic |-> 0, cancel |-> probs_as[4]],
         from_ad_free |->
            [stay |-> probs_af[1], to_ad_supported |-> probs_af[3],
             to_bundle |-> 0, to_basic |-> 0, cancel |-> probs_af[4]],
         tier_config |-> "2-tier"]

(* the router with the basic topology falling through to the 2-tier model *)
predict_migration_matrix_fallthrough(scenario) ==
    LET tier_config == detect_tier_config(scenario)
    IN  IF tier_config.t = "raise" THEN tier_config
        ELSE IF tier_config.v = "3-tier-bundle"
             THEN Ok(predict_3tier_bundle(scenario))
        ELSE Ok(predict_2tier(scenario))

(* an exception of detect_tier_config propagates to the caller *)
predict_migration_matrix(scenario) ==
    LET tier_config == detect_tier_config(scenario)
    IN  IF tier_config.t = "raise" THEN tier_config
        ELSE IF tier_config.v = "3-tier-bundle"
             THEN Ok(predict_3tier_bundle(scenario))
        ELSE IF tier_config.v = "3-tier-basic"
             THEN Ok(predict_3tier_basic(scenario))
        ELSE Ok(predict_2tier(scenario))

-----------------------------------------------------------------------------
(* regenerate_data_option1.py: the archetype catalog, values in hundredths *)
ELASTICITY_PROFILES ==
    [ultra_loyal |->
        [base_acquisition_elasticity |-> -65, base_repeat_loss_elasticity |-> 25,
         base_migration_upgrade |-> 140, base_migration_downgrade |-> 50,
         tenure_decay_rate |-> 8, engagement_offset |-> 40,
         price_history_habituation |-> 20,
         repeat_loss_curve_type |-> "delayed_ramp",
         migration_asymmetry_factor |-> 180,
         time_lag_distribution |-> <<5, 10, 20, 35, 30>>],
     value_conscious |->
        [base_acquisition_elasticity |-> -180, base_repeat_loss_elasticity |-> 90,
         base_migration_upgrade |-> 80, base_migration_downgrade |-> 130,
         tenure_decay_rate |-> 3, engagement_offset |-> 15,
         price_history_habituation |-> 5,
         repeat_loss_curve_type |-> "moderate",
         migration_asymmetry_factor |-> 220,
         time_lag_distribution |-> <<15, 25, 30, 20, 10>>],
     deal_hunter |->
        [base_acquisition_elasticity |-> -350, base_repeat_loss_elasticity |-> 160,
         base_migration_upgrade |-> 40, base_migration_downgrade |-> 200,
         tenure_decay_rate |-> 1, engagement_offset |-> 5,
         price_history_habituation |-> 0,
         repeat_loss_curve_type |-> "sharp_spike_plateau",
         migration_asymmetry_factor |-> 450,
         time_lag_distribution |-> <<40, 35, 15, 7, 3>>],
     content_driven |->
        [base_acquisition_elasticity |-> -120, base_repeat_loss_elasticity |-> 70,
         base_migration_upgrade |-> 110, base_migration_downgrade |-> 90,
         tenure_decay_rate |-> 5, engagement_offset |-> 25,
         price_history_habituation |-> 12,
         repeat_loss_curve_type |-> "conditional_spike",
         migration_asymmetry_factor |-> 200,
         time_lag_distribution |-> <<12, 22, 30, 25, 11>>],
     tier_flexible |->
        [base_acquisition_elasticity |-> -160, base_repeat_loss_elasticity |-> 85,
         base_migration_upgrade |-> 90, base_migration_downgrade |-> 270,
         tenure_decay_rate |-> 4, engagement_offset |-> 18,
         price_history_habituation |-> 8,
         repeat_loss_curve_type |-> "moderate",
         migration_asymmetry_factor |-> 380,
         time_lag_distribution |-> <<18, 28, 28, 18, 8>>],
     premium_seeker |->
        [base_acquisition_elasticity |-> -100, base_repeat_loss_elasticity |-> 40,
         base_migration_upgrade |-> 160, base_migration_downgrade |-> 40,
         tenure_decay_rate |-> 6, engagement_offset |-> 30,
         price_history_habituation |-> 15,
         repeat_loss_curve_type |-> "gentle_slope",
         migration_asymmetry_factor |-> 80,
         time_lag_distribution |-> <<8, 12, 18, 30, 32>>],
     at_risk |->
        [base_acquisition_elasticity |-> -200, base_repeat_loss_elasticity |-> 120,
         base_migration_upgrade |-> 50, base_migration_downgrade |-> 180,
         tenure_decay_rate |-> -2, engagement_offset |-> 10,
         price_history_habituation |-> 3,
         repeat_loss_curve_type |-> "accelerating",
         migration_asymmetry_factor |-> 320,
         time_lag_distribution |-> <<25, 30, 25, 13, 7>>]]

(* the buckets of a time-lag distribution, in key order *)
TIME_LAG_PERIODS ==
    <<"0_4_weeks", "4_8_weeks", "8_12_weeks", "12_16_weeks", "16_20_weeks">>

(* the keys of the weights dict, in insertion order *)
PROFILE_ORDER ==
    <<"ultra_loyal", "value_conscious", "deal_hunter", "content_driven",
      "tier_flexible", "premium_seeker", "at_risk">>

Profiles == {PROFILE_ORDER[i] : i \in DOMAIN PROFILE_ORDER}

(* weights[p] += d[p] for the archetypes d names *)
Inc(weights, d) ==
    [p \in DOMAIN weights |->
        weights[p] + (IF p \in DOMAIN d THEN d[p] ELSE 0)]

(* the accumulated, not yet normalised weights, in hundredths *)
accumulate_weights(acquisition_segment, engagement_segment, monetization_segment) ==
    LET w0 == [p \in Profiles |-> 0]
        w1 == CASE acquisition_segment = "habitual_streamers" ->
                     Inc(w0, [ultra_loyal |-> 60, content_driven |-> 20,
                              value_conscious |-> 20])
                [] acquisition_segment = "content_anchored_viewers" ->
                     Inc(w0, [content_driven |-> 60, ultra_loyal |-> 25,
                              value_conscious |-> 15])
                [] acquisition_segment = "at_risk_lapsers" ->
                     Inc(w0, [at_risk |-> 70, value_conscious |-> 20,
                              tier_flexible |-> 10])
                [] acquisition_segment = "promo_only_users" ->
                     Inc(w0, [deal_hunter |-> 70, value_conscious |-> 30])
                [] acquisition_segment = "dormant_customers" ->
                     Inc(w0, [at_risk |-> 60, deal_hunter |-> 25,
                              value_conscious |-> 15])
                [] OTHER -> w0
        w2 == CASE engagement_segment = "ad_value_seekers" ->
                     Inc(w1, [value_conscious |-> 50, deal_hunter |-> 30,
                              tier_flexible |-> 20])
                [] engagement_segment = "ad_tolerant_upgraders" ->
                     Inc(w1, [tier_flexible |-> 40, value_conscious |-> 30,
                              premium_seeker |-> 30])
                [] engagement_segment = "ad_free_loyalists" ->
                     Inc(w1, [premium_seeker |-> 60, ultra_loyal |-> 40])
                [] engagement_segment = "price_triggered_downgraders" ->
                     Inc(w1, [tier_flexible |-> 50, deal_hunter |-> 30,
                              at_risk |-> 20])
                [] engagement_segment = "tvod_inclined_buyers" ->
                     Inc(w1, [content_driven |-> 50, premium_seeker |-> 30,
                              value_conscious |-> 20])
                [] OTHER -> w1
        w3 == CASE monetization_segment = "platform_bundled_acquirers" ->
                     Inc(w2, [ultra_loyal |-> 40, value_conscious |-> 40,
                              premium_seeker |-> 20])
                [] monetization_segment = "tvod_to_svod_converters" ->
                     Inc(w2, [content_driven |-> 50, ultra_loyal |-> 30,
                              premium_seeker |-> 20])
                [] monetization_segment = "content_triggered_buyers" ->
                     Inc(w2, [content_driven |-> 60, value_conscious |-> 25,
                              ultra_loyal |-> 15])
                [] monetization_segment = "deal_responsive_acquirers" ->
                     Inc(w2, [deal_hunter |-> 60, value_conscious |-> 30,
                              tier_flexible |-> 10])
                [] monetization_segment = "value_perception_buyers" ->
                     Inc(w2, [value_conscious |-> 60, tier_flexible |-> 25,
                              deal_hunter |-> 15])
                [] OTHER -> w2
    IN  w3

(* the weights divided by the number of axes instead of by their total *)
get_profile_weights_per_axis(acquisition_segment, engagement_segment, monetization_segment) ==
    [num |-> accumulate_weights(acquisition_segment, engagement_segment,
                                monetization_segment),
     den |-> 300]

(* The returned weight of archetype p is the rational num[p] / den: the     *)
(* accumulated hundredths over their total, or over 100 when the total is 0 *)
(* and the code leaves the weights as accumulated.                          *)
get_profile_weights(acquisition_segment, engagement_segment, monetization_segment) ==
    LET weights == accumulate_weights(acquisition_segment, engagement_segment,
                                      monetization_segment)
        total == SumOver(weights, Profiles)
    IN  IF total > 0
        THEN [num |-> weights, den |-> total]
        ELSE [num |-> weights, den |-> 100]

(* sum(ELASTICITY_PROFILES[profile][field] * weight ...), in 1/(100*den) *)
RECURSIVE BlendOver(_, _, _)
BlendOver(field, num, i) ==
    IF i > Len(PROFILE_ORDER) THEN 0
    ELSE ELASTICITY_PROFILES[PROFILE_ORDER[i]][field] * num[PROFILE_ORDER[i]]
         + BlendOver(field, num, i + 1)

(* a selection: the value of the first archetype that has weight *)
Blend_first_weighted(field, profile_weights) ==
    LET weighted ==
            {i \in DOMAIN PROFILE_ORDER :
                profile_weights.num[PROFILE_ORDER[i]] > 0}
    IN  IF weighted = {} THEN 0
        ELSE ELASTICITY_PROFILES[
                 PROFILE_ORDER[CHOOSE i \in weighted :
                                  \A j \in weighted : i <= j]][field]
             * profile_weights.den

Blend(field, profile_weights) == BlendOver(field, profile_weights.num, 1)

RECURSIVE TimeLagOver(_, _, _)
TimeLagOver(b, num, i) ==
    IF i > Len(PROFILE_ORDER) THEN 0
    ELSE ELASTICITY_PROFILES[PROFILE_ORDER[i]].time_lag_distribution[b]
             * num[PROFILE_ORDER[i]]
         + TimeLagOver(b, num, i + 1)

(* a blend in which each archetype overwrites the bucket instead of adding *)
time_lag_blend_overwrite(profile_weights) ==
    [b \in DOMAIN TIME_LAG_PERIODS |->
        ELASTICITY_PROFILES[PROFILE_ORDER[Len(PROFILE_ORDER)]]
            .time_lag_distribution[b]
        * profile_weights.num[PROFILE_ORDER[Len(PROFILE_ORDER)]]]

(* the blended bucket numerators, in 1/(100*den) *)
time_lag_blend(profile_weights) ==
    [b \in DOMAIN TIME_LAG_PERIODS |-> TimeLagOver(b, profile_weights.num, 1)]

(* max(profile_weights.items(), key=weight): the first of the largest *)
RECURSIVE MaxFrom(_, _, _)
MaxFrom(num, best, i) ==
    IF i > Len(PROFILE_ORDER) THEN best
    ELSE MaxFrom(num,
                 IF num[PROFILE_ORDER[i]] > num[best]
                 THEN PROFILE_ORDER[i] ELSE best,
                 i + 1)

(* max(...) keeping the last of several largest weights *)
RECURSIVE MaxFromLast(_, _, _)
MaxFromLast(num, best, i) ==
    IF i > Len(PROFILE_ORDER) THEN best
    ELSE MaxFromLast(num,
                     IF num[PROFILE_ORDER[i]] >= num[best]
                     THEN PROFILE_ORDER[i] ELSE best,
                     i + 1)

dominant_profile_last(profile_weights) ==
    MaxFromLast(profile_weights.num, PROFILE_ORDER[1], 2)

dominant_profile(profile_weights) ==
    MaxFrom(profile_weights.num, PROFILE_ORDER[1], 2)

(* a rational n / d *)
Frac(n, d) == [n |-> n, d |-> d]

(* the blend with the jitter applied to the acquisition elasticity only *)
calculate_segment_elasticity_acquisition_jitter(profile_weights, noise) ==
    LET d == 100 * profile_weights.den
        acquisition_elasticity == Blend("base_acquisition_elasticity", profile_weights)
        repeat_loss_elasticity == Blend("base_repeat_loss_elasticity", profile_weights)
        upgrade_willingness == Blend("base_migration_upgrade", profile_weights)
        downgrade_propensity == Blend("base_migration_downgrade", profile_weights)
        tenure_decay_rate == Blend("tenure_decay_rate", profile_weights)
        engagement_offset == Blend("engagement_offset", profile_weights)
        price_history_habituation == Blend("price_history_habituation", profile_weights)
        asymmetry_factor == Blend("migration_asymmetry_factor", profile_weights)
        time_lag_distribution == time_lag_blend(profile_weights)
        repeat_loss_curve_type ==
            ELASTICITY_PROFILES[dominant_profile(profile_weights)]
                .repeat_loss_curve_type
    IN  [acquisition_axis |->
            [elasticity |-> Frac(acquisition_elasticity * (H + noise), d * H),
             tenure_decay_rate |-> Frac(tenure_decay_rate, d),
             engagement_offset |-> Frac(engagement_offset, d),
             price_history_habituation |-> Frac(price_history_habituation, d)],
         repeat_loss_axis |->
            [elasticity |-> Frac(repeat_loss_elasticity * H, d * H),
             repeat_loss_curve_type |-> repeat_loss_curve_type,
             time_lag_distribution |->
                [b \in DOMAIN TIME_LAG_PERIODS |->
                    Frac(time_lag_distribution[b], d)]],
         migration_axis |->
            [upgrade_willingness |-> Frac(upgrade_willingness, d),
             downgrade_propensity |-> Frac(downgrade_propensity, d),
             asymmetry_factor |-> Frac(asymmetry_factor, d)],
         profile_weights |-> profile_weights]

(* noise is the draw of random.uniform(-0.05, 0.05), in units of 1/H *)
calculate_segment_elasticity(profile_weights, noise) ==
    LET d == 100 * profile_weights.den
        acquisition_elasticity == Blend("base_acquisition_elasticity", profile_weights)
        repeat_loss_elasticity == Blend("base_repeat_loss_elasticity", profile_weights)
        upgrade_willingness == Blend("base_migration_upgrade", profile_weights)
        downgrade_propensity == Blend("base_migration_downgrade", profile_weights)
        tenure_decay_rate == Blend("tenure_decay_rate", profile_weights)
        engagement_offset == Blend("engagement_offset", profile_weights)
        price_history_habituation == Blend("price_history_habituation", profile_weights)
        asymmetry_factor == Blend("migration_asymmetry_factor", profile_weights)
        time_lag_distribution == time_lag_blend(profile_weights)
        repeat_loss_curve_type ==
            ELASTICITY_PROFILES[dominant_profile(profile_weights)]
                .repeat_loss_curve_type
    IN  [acquisition_axis |->
            [elasticity |-> Frac(acquisition_elasticity * (H + noise), d * H),
             tenure_decay_rate |-> Frac(tenure_decay_rate, d),
             engagement_offset |-> Frac(engagement_offset, d),
             price_history_habituation |-> Frac(price_history_habituation, d)],
         repeat_loss_axis |->
            [elasticity |-> Frac(repeat_loss_elasticity * (H + noise), d * H),
             repeat_loss_curve_type |-> repeat_loss_curve_type,
             time_lag_distribution |->
                [b \in DOMAIN TIME_LAG_PERIODS |->
                    Frac(time_lag_distribution[b], d)]],
         migration_axis |->
            [upgrade_willingness |-> Frac(upgrade_willingness, d),
             downgrade_propensity |-> Frac(downgrade_propensity, d),
             asymmetry_factor |-> Frac(asymmetry_factor, d)],
         profile_weights |-> profile_weights]

(* the segment lists of generate_segment_elasticity_json, in loop order *)
acquisition_segments ==
    <<"habitual_streamers", "content_anchored_viewers", "at_risk_lapsers",
      "promo_only_users", "dormant_customers">>

engagement_segments ==
    <<"ad_value_seekers", "ad_tolerant_upgraders", "ad_free_loyalists",
      "price_triggered_downgraders", "tvod_inclined_buyers">>

monetization_segments ==
    <<"platform_bundled_acquirers", "tvod_to_svod_converters",
      "content_triggered_buyers", "deal_responsive_acquirers",
      "value_perception_buyers">>

tiers == <<"ad_supported", "ad_free">>

Range(s) == {s[i] : i \in DOMAIN s}

(* random.seed(42): the values random.uniform(-0.05, 0.05) returns, in call *)
(* order from the seeding on, in units of 1/H                               *)
SEEDED_UNIFORM ==
    <<139, -475, -225, -277, 236, 177, 392, -413, -78, -470, -281, 5,
      -473, -301, 150, 45, -280, 89, 309, -494, 306, 198, -160, -345,
      457, -163, -407, -403, 347, 104, 307, 230, 36, 473, -121, 52,
      329, 119, 362, 77, 205, -454, -272, -211, -420, -267, -399, -222,
      136, -135, -130, -290, -233, 437, 148, 109, -329, 229, -337, -121,
      490, 140, 57, 185, 343, 276, -271, -468, -185, -232, -289, 443,
      376, -185, 155, -104, 415, -41, -235, -253, 61, -237, 85, 398,
      -101, -281, 498, 10, -409, -453, -390, 127, 292, -78, -436, -118,
      496, 29, 471, 361, -489, 221, 182, 37, -233, 141, -388, -65,
      -46, 454, 376, -237, 1, -321, 413, 371, -202, 139, 109, -347,
      263, 39, 279, 30, -499, -176, -481, 429, 379, 332, -192, -442,
      378, 447, -414, -14, -431, 261, 266, -372, -25, 50, -235, 372,
      -77, -288, 39, 230, -299, -188, 495, 150, -62, 18, -379, -275,
      -162, 88, -270, -280, -429, 131, -271, 405, 360, -429, -262, 169,
      -286, -368, 436, 71, -27, 285, 307, -310, -403, -69, -76, -33,
      229, 173, 484, -402, -97, -161, 362, -251, -310, -51, -78, -221,
      -250, 423, -57, 361, 50, -449, 499, 336, 469, 426, 349, -334,
      -14, -286, -99, -441, -121, 485, -235, 284, -45, -77, 457, 495,
      56, 218, -345, -203, 469, 79, 42, 248, -443, 84, 3, 353,
      -343, 461, -420, -314, 95, 175, -265, -380, 390, -254, 95, 119,
      -81, 84, 23, 435, -296, 216, -261, -104, 172, -200, -184, 252,
      -427, -42, 498, 496>>

(* random.uniform(-0.05, 0.05) of the generator after `random` draws *)
random_uniform(random) == SEEDED_UNIFORM[random + 1]

(* elasticity *= factor, factor in hundredths, rounded down to 1/d *)
Scaled(elasticity, factor) ==
    Frac(MulFrac(elasticity.n, factor, 100), elasticity.d)

(* the adjustment applied whatever the tier *)
tier_adjustment_every_tier(tier, segment_data) ==
    [segment_data EXCEPT
        !.acquisition_axis.elasticity = Scaled(@, 75),
        !.repeat_loss_axis.elasticity = Scaled(@, 70)]

(* the tier adjustment of generate_segment_elasticity_json *)
tier_adjustment(tier, segment_data) ==
    IF tier = "ad_free"
    THEN [segment_data EXCEPT
             !.acquisition_axis.elasticity = Scaled(@, 75),
             !.repeat_loss_axis.elasticity = Scaled(@, 70)]
    ELSE segment_data

(* f"{acq_seg}|{eng_seg}|{mon_seg}" *)
composite_key(acq_seg, eng_seg, mon_seg) ==
    acq_seg \o "|" \o eng_seg \o "|" \o mon_seg

(* the iterations of the loops over the three segment lists *)
KeyPositions ==
    (DOMAIN acquisition_segments) \X (DOMAIN engagement_segments)
        \X (DOMAIN monetization_segments)

KeysPerTier ==
    Len(acquisition_segments) * Len(engagement_segments)
        * Len(monetization_segments)

(* the number of draws made before the iteration at tier t, position pos *)
DrawsBefore(t, pos) ==
    (t - 1) * KeysPerTier
    + (pos[1] - 1) * Len(engagement_segments) * Len(monetization_segments)
    + (pos[2] - 1) * Len(monetization_segments)
    + (pos[3] - 1)

(* one iteration of the innermost loop: the entry stored under the key *)
segment_entry(t, pos, random) ==
    LET profile_weights ==
            get_profile_weights(acquisition_segments[pos[1]],
                                engagement_segments[pos[2]],
                                monetization_segments[pos[3]])
        segment_data ==
            calculate_segment_elasticity(
                profile_weights, random_uniform(random + DrawsBefore(t, pos)))
    IN  tier_adjustment(tiers[t], segment_data)

(* output[tier]["segment_elasticity"][key] of every iteration, and the     *)
(* generator state the loops leave behind                                  *)
generate_segment_elasticity_json(random) ==
    LET key_of(pos) ==
            composite_key(acquisition_segments[pos[1]],
                          engagement_segments[pos[2]],
                          monetization_segments[pos[3]])
        keys == {key_of(pos) : pos \in KeyPositions}
        last(key) ==
            CHOOSE pos \in KeyPositions :
                /\ key_of(pos) = key
                /\ \A other \in KeyPositions :
                      key_of(other) = key =>
                          DrawsBefore(1, other) <= DrawsBefore(1, pos)
    IN  [output |->
            [tier \in Range(tiers) |->
                [segment_elasticity |->
                    [key \in keys |->
                        segment_entry(
                            CHOOSE t \in DOMAIN tiers : tiers[t] = tier,
                            last(key), random)]]],
         random |-> random + Len(tiers) * KeysPerTier]

-----------------------------------------------------------------------------
(* acquisition_model.py; coefficients in thousandths *)
ACQUISITION_COEFFICIENTS ==
    [intercept |-> 6500, price |-> -250, promo_discount |-> 30,
     is_promo |-> 400, segment_elasticity_factor |-> 120]

(* r*r <= a*A, without forming the products *)
SquareAtMost(r, a) ==
    LET rh == r \div H
        rl == r % H
        q == rh * rh * H + 2 * rh * rl + (rl * rl) \div H
    IN  q < a \/ (q = a /\ (rl * rl) % H = 0)

RECURSIVE SqrtBits(_, _, _)
SqrtBits(a, r, bit) ==
    IF bit = 0 THEN r
    ELSE IF SquareAtMost(r + bit, a)
         THEN SqrtBits(a, r + bit, bit \div 2)
         ELSE SqrtBits(a, r, bit \div 2)

(* np.sqrt(a): a and the result in units of 1/A *)
np_sqrt(a) == SqrtBits(a, 0, 2^21)

Max2(x, y) == IF x >= y THEN x ELSE y

(* the linear predictor with discount_pct taken as a fraction of 1 *)
log_adds_fraction(price, promo_discount, is_promo, segment_elasticity) ==
    ACQUISITION_COEFFICIENTS.intercept * 100
    + ACQUISITION_COEFFICIENTS.price * price
    + (ACQUISITION_COEFFICIENTS.promo_discount * promo_discount) \div 100
    + ACQUISITION_COEFFICIENTS.is_promo * C(is_promo)
    + ACQUISITION_COEFFICIENTS.segment_elasticity_factor * Abs(segment_elasticity)

(* the linear predictor, in units of 1/U; promo_discount is discount_pct/100 *)
(* in units of 1/H, and promo_discount * 100 is that number in hundredths    *)
log_adds_of(price, promo_discount, is_promo, segment_elasticity) ==
    ACQUISITION_COEFFICIENTS.intercept * 100
    + ACQUISITION_COEFFICIENTS.price * price
    + ACQUISITION_COEFFICIENTS.promo_discount * promo_discount
    + ACQUISITION_COEFFICIENTS.is_promo * C(is_promo)
    + ACQUISITION_COEFFICIENTS.segment_elasticity_factor * Abs(segment_elasticity)

(* the interval without the clamp of the lower end *)
confidence_interval_unclamped(predicted_adds) ==
    LET se == np_sqrt(predicted_adds)
    IN  [se |-> se,
         ci_lower |-> predicted_adds - (196 * se) \div 100,
         ci_upper |-> predicted_adds + (196 * se) \div 100]

(* se, ci_lower and ci_upper, in units of 1/A *)
confidence_interval(predicted_adds) ==
    LET se == np_sqrt(predicted_adds)
    IN  [se |-> se,
         ci_lower |-> Max2(0, predicted_adds - (196 * se) \div 100),
         ci_upper |-> predicted_adds + (196 * se) \div 100]

(* the reported elasticity blended with the segment term *)
predict_acquisition_blended(scenario) ==
    LET price == Get(scenario, "new_price", Num(899)).v
        promotion == Get(scenario, "promotion", None)
        promo_discount ==
            IF Truthy(promotion)
            THEN Get(promotion.v, "discount_pct", Num(0)).v
            ELSE 0
        is_promo == IF Truthy(promotion) THEN 1 ELSE 0
        segment_elasticity == Get(scenario, "segment_elasticity", Num(-180)).v
        log_adds == log_adds_of(price, promo_discount, is_promo, segment_elasticity)
        predicted_adds ==
            IF log_adds <= 0 THEN np_exp(log_adds) \div (P \div A)
            ELSE np_exp(log_adds)
        ci == confidence_interval(predicted_adds)
        elasticity ==
            ACQUISITION_COEFFICIENTS.price * price
            - ACQUISITION_COEFFICIENTS.segment_elasticity_factor
                * Abs(segment_elasticity)
    IN  [log_adds |-> log_adds,
         predicted_adds |-> predicted_adds,
         ci_lower |-> ci.ci_lower,
         ci_upper |-> ci.ci_upper,
         elasticity |-> elasticity,
         confidence |->
            IF predicted_adds > 0
            THEN MulDiv(ci.se, 100 * A, predicted_adds)
            ELSE 0]

(* the absent optional fields read with other defaults *)
predict_acquisition_other_defaults(scenario) ==
    LET price == Get(scenario, "new_price", Num(999)).v
        promotion == Get(scenario, "promotion", None)
        promo_discount ==
            IF Truthy(promotion)
            THEN Get(promotion.v, "discount_pct", Num(0)).v
            ELSE 0
        is_promo == IF Truthy(promotion) THEN 1 ELSE 0
        segment_elasticity == Get(scenario, "segment_elasticity", Num(-200)).v
        log_adds == log_adds_of(price, promo_discount, is_promo, segment_elasticity)
        predicted_adds ==
            IF log_adds <= 0 THEN np_exp(log_adds) \div (P \div A)
            ELSE np_exp(log_adds)
        ci == confidence_interval(predicted_adds)
        elasticity == ACQUISITION_COEFFICIENTS.price * price
    IN  [log_adds |-> log_adds,
         predicted_adds |-> predicted_adds,
         ci_lower |-> ci.ci_lower,
         ci_upper |-> ci.ci_upper,
         elasticity |-> elasticity,
         confidence |->
            IF predicted_adds > 0
            THEN MulDiv(ci.se, 100 * A, predicted_adds)
            ELSE 0]

(* predicted_adds, the interval and confidence in units of 1/A, log_adds    *)
(* and elasticity in units of 1/U                                           *)
predict_acquisition(scenario) ==
    LET price == Get(scenario, "new_price", Num(899)).v
        promotion == Get(scenario, "promotion", None)
        promo_discount ==
            IF Truthy(promotion)
            THEN Get(promotion.v, "discount_pct", Num(0)).v
            ELSE 0
        is_promo == IF Truthy(promotion) THEN 1 ELSE 0
        segment_elasticity == Get(scenario, "segment_elasticity", Num(-180)).v
        log_adds == log_adds_of(price, promo_discount, is_promo, segment_elasticity)
        predicted_adds ==
            IF log_adds <= 0 THEN np_exp(log_adds) \div (P \div A)
            ELSE np_exp(log_adds)
        ci == confidence_interval(predicted_adds)
        elasticity == ACQUISITION_COEFFICIENTS.price * price
    IN  [log_adds |-> log_adds,
         predicted_adds |-> predicted_adds,
         ci_lower |-> ci.ci_lower,
         ci_upper |-> ci.ci_upper,
         elasticity |-> elasticity,
         confidence |->
            IF predicted_adds > 0
            THEN MulDiv(ci.se, 100 * A, predicted_adds)
            ELSE 0]

(* {**d, key: value}: a new dict; d itself is left as it is *)
Merge(d, key, value) ==
    [k \in DOMAIN d \cup {key} |-> IF k = key THEN value ELSE d[k]]

Min2(x, y) == IF x <= y THEN x ELSE y

(* (1.0 / np.sqrt(max(segment_adds, 1))) * 100 if segment_adds > 0 else 10.0 *)
(* in units of 1/A                                                           *)
segment_confidence_of(segment_adds) ==
    IF segment_adds > 0
    THEN MulDiv(100 * A, A, np_sqrt(Max2(segment_adds, A)))
    ELSE 10 * A

(* the body with segment_elasticity assigned into the caller's scenario     *)
(* instead of a copy                                                        *)
acquisition_segment_body_shared(scenario, segment) ==
    LET seg_scenario ==
            Merge(scenario, "segment_elasticity",
                  Get(segment, "elasticity", Num(-180)))
        prediction == predict_acquisition(seg_scenario)
        segment_adds ==
            MulDiv(prediction.predicted_adds, segment.size.v, 50000)
    IN  [scenario |-> seg_scenario,
         out |->
            IF "elasticity" \notin DOMAIN segment THEN Raise("KeyError")
            ELSE Ok([name |-> segment.name,
                     size |-> segment.size,
                     predicted_adds |-> segment_adds,
                     elasticity |-> segment.elasticity,
                     lift_at_minus_5pct |-> -5 * segment.elasticity.v,
                     lift_at_plus_5pct |-> 5 * segment.elasticity.v,
                     confidence |->
                        Min2(segment_confidence_of(segment_adds), 15 * A)])]

(* the body of the loop of predict_acquisition_by_segment for one segment:  *)
(* the scenario object as the iteration leaves it, and the record appended  *)
(* to results or the exception raised                                       *)
acquisition_segment_body(scenario, segment) ==
    LET seg_scenario ==
            Merge(scenario, "segment_elasticity",
                  Get(segment, "elasticity", Num(-180)))
        prediction == predict_acquisition(seg_scenario)
        segment_adds ==
            MulDiv(prediction.predicted_adds, segment.size.v, 50000)
    IN  [scenario |-> scenario,
         out |->
            IF "elasticity" \notin DOMAIN segment THEN Raise("KeyError")
            ELSE Ok([name |-> segment.name,
                     size |-> segment.size,
                     predicted_adds |-> segment_adds,
                     elasticity |-> segment.elasticity,
                     lift_at_minus_5pct |-> -5 * segment.elasticity.v,
                     lift_at_plus_5pct |-> 5 * segment.elasticity.v,
                     confidence |->
                        Min2(segment_confidence_of(segment_adds), 15 * A)])]

(* the loop with segment_elasticity stored into the caller's scenario *)
RECURSIVE acquisition_segment_loop_in_place(_, _, _, _)
acquisition_segment_loop_in_place(scenario, segments, i, results) ==
    IF i > Len(segments)
    THEN [ret |-> Ok(results), scenario |-> scenario, segments |-> segments]
    ELSE LET step == acquisition_segment_body(scenario, segments[i])
             stored ==
                Merge(scenario, "segment_elasticity",
                      Get(segments[i], "elasticity", Num(-180)))
         IN  IF step.out.t = "raise"
             THEN [ret |-> step.out, scenario |-> stored,
                   segments |-> segments]
             ELSE acquisition_segment_loop_in_place(
                      stored, segments, i + 1, Append(results, step.out.v))

(* for segment in segments: ... results.append(...); an exception ends the  *)
(* call                                                                     *)
RECURSIVE acquisition_segment_loop(_, _, _, _)
acquisition_segment_loop(scenario, segments, i, results) ==
    IF i > Len(segments)
    THEN [ret |-> Ok(results), scenario |-> scenario, segments |-> segments]
    ELSE LET step == acquisition_segment_body(scenario, segments[i])
         IN  IF step.out.t = "raise"
             THEN [ret |-> step.out, scenario |-> step.scenario,
                   segments |-> segments]
             ELSE acquisition_segment_loop(
                      step.scenario, segments, i + 1,
                      Append(results, step.out.v))

(* the result or exception, and the caller's scenario and segments as the   *)
(* call leaves them                                                         *)
predict_acquisition_by_segment(scenario, segments) ==
    acquisition_segment_loop(scenario, segments, 1, <<>>)

-----------------------------------------------------------------------------
(* churn_model.py; coefficients in thousandths *)

(* the table with the 8-12 week coefficient below the others *)
REPEAT_LOSS_COEFFICIENTS_early_peak ==
    [intercept |-> -2944, price_change_pct |-> 10,
     price_x_0_4wks |-> 28, price_x_4_8wks |-> 18,
     price_x_8_12wks |-> 6, price_x_12plus |-> 8]

REPEAT_LOSS_COEFFICIENTS ==
    [intercept |-> -2944, price_change_pct |-> 10,
     price_x_0_4wks |-> 6, price_x_4_8wks |-> 18,
     price_x_8_12wks |-> 28, price_x_12plus |-> 8]

(* 1 / (1 + np.exp(-x)): x in units of 1/U, the result in units of 1/P *)
logistic(x) ==
    IF x >= 0
    THEN MulDiv(P, P, P + np_exp(-x))
    ELSE MulDiv(A, P, A + np_exp(-x))

(* the horizons dict, in insertion order *)
HORIZON_ORDER == <<"0-4 Weeks", "4-8 Weeks", "8-12 Weeks", "12+ Weeks">>

horizons ==
    [h \in {HORIZON_ORDER[i] : i \in DOMAIN HORIZON_ORDER} |->
        CASE h = "0-4 Weeks" -> REPEAT_LOSS_COEFFICIENTS.price_x_0_4wks
          [] h = "4-8 Weeks" -> REPEAT_LOSS_COEFFICIENTS.price_x_4_8wks
          [] h = "8-12 Weeks" -> REPEAT_LOSS_COEFFICIENTS.price_x_8_12wks
          [] h = "12+ Weeks" -> REPEAT_LOSS_COEFFICIENTS.price_x_12plus]

(* the uplift reported against a baseline of zero *)
horizon_result_no_baseline(price_change_pct, baseline_repeat_loss, coef) ==
    LET log_odds ==
            REPEAT_LOSS_COEFFICIENTS.intercept * 100
            + REPEAT_LOSS_COEFFICIENTS.price_change_pct * price_change_pct
            + coef * price_change_pct
        repeat_loss_prob == logistic(log_odds)
    IN  [repeat_loss_rate |-> repeat_loss_prob,
         repeat_loss_uplift |-> repeat_loss_prob,
         repeat_loss_uplift_pp |-> repeat_loss_prob * ((100 * PP) \div P)]

(* the body of the loop over the horizons; price_change_pct in hundredths  *)
(* of a percent, baseline_repeat_loss, the rate and the uplift in units of *)
(* 1/P, the uplift in percentage points in units of 1/PP                   *)
horizon_result(price_change_pct, baseline_repeat_loss, coef) ==
    LET log_odds ==
            REPEAT_LOSS_COEFFICIENTS.intercept * 100
            + REPEAT_LOSS_COEFFICIENTS.price_change_pct * price_change_pct
            + coef * price_change_pct
        repeat_loss_prob == logistic(log_odds)
        repeat_loss_uplift == repeat_loss_prob - baseline_repeat_loss
    IN  [repeat_loss_rate |-> repeat_loss_prob,
         repeat_loss_uplift |-> repeat_loss_uplift,
         repeat_loss_uplift_pp |-> repeat_loss_uplift * ((100 * PP) \div P)]

predict_repeat_loss_by_horizon(scenario) ==
    LET price_change_pct == Get(scenario, "price_change_pct", Num(0)).v
        baseline_repeat_loss ==
            Get(scenario, "baseline_repeat_loss", Num(5 * (P \div 100))).v
    IN  [h \in DOMAIN horizons |->
            horizon_result(price_change_pct, baseline_repeat_loss, horizons[h])]

(* 'repeat_loss_' + horizon.replace(' ', '_').replace('-', '_')             *)
(*                         .replace('+', 'plus').lower()                    *)
horizon_key(horizon) ==
    CASE horizon = "0-4 Weeks" -> "repeat_loss_0_4_weeks"
      [] horizon = "4-8 Weeks" -> "repeat_loss_4_8_weeks"
      [] horizon = "8-12 Weeks" -> "repeat_loss_8_12_weeks"
      [] horizon = "12+ Weeks" -> "repeat_loss_12plus_weeks"

(* the multiplier without the cap of the magnitude at 4.0 *)
segment_multiplier_uncapped(elasticity) == 7000 + (elasticity * 6000) \div 400

(* 0.7 + (min(elasticity, 4.0) / 4.0) * 0.6, in units of 1/H; elasticity is *)
(* the magnitude, in hundredths                                             *)
segment_multiplier(elasticity) ==
    7000 + (Min2(elasticity, 400) * 6000) \div 400

(* the body of the loop of predict_repeat_loss_by_segment for one segment   *)
repeat_loss_segment_body(scenario, segment) ==
    LET by_horizon == predict_repeat_loss_by_horizon(scenario)
        elasticity == Abs(Get(segment, "elasticity", Num(-200)).v)
        multiplier == segment_multiplier(elasticity)
        keys == {horizon_key(h) : h \in DOMAIN by_horizon}
    IN  [k \in {"name", "size"} \cup keys |->
            CASE k = "name" -> segment.name
              [] k = "size" -> segment.size
              [] OTHER ->
                    LET h == CHOOSE h \in DOMAIN by_horizon : horizon_key(h) = k
                    IN  MulFrac(by_horizon[h].repeat_loss_uplift_pp,
                                multiplier, H)]

RECURSIVE repeat_loss_segment_loop(_, _, _, _)
repeat_loss_segment_loop(scenario, segments, i, results) ==
    IF i > Len(segments)
    THEN [ret |-> Ok(results), scenario |-> scenario, segments |-> segments]
    ELSE repeat_loss_segment_loop(
             scenario, segments, i + 1,
             Append(results, repeat_loss_segment_body(scenario, segments[i])))

predict_repeat_loss_by_segment(scenario, segments) ==
    repeat_loss_segment_loop(scenario, segments, 1, <<>>)

-----------------------------------------------------------------------------
(* Scenarios offered to the migration entry points *)
TierChoices ==
    {ABSENT, None} \cup
    {Str(l) : l \in {"ad_free", "basic", "bundle", "Bundle"}}

NewPriceChoices ==
    {ABSENT, None} \cup
    {Num(c) : c \in {0, 198, 199, 299, 399, 400, 899, 1398, 1399, 1599, 1600}}

PromotionChoices ==
    {ABSENT, None, Dict(<<>>),
     Dict([discount_pct |-> Num(2000)]), Dict([code |-> Str("SAVE")])}

AdSupportedPriceChoices == {ABSENT, Num(999)}

AdFreePriceChoices ==
    {ABSENT} \cup {Num(899 + 1000 * k) : k \in 0..MaxGapSteps}

MigrationScenarios ==
    {MkDict([tier |-> tr, new_price |-> np, promotion |-> pr,
             ad_supported_price |-> asp, ad_free_price |-> afp]) :
        tr \in TierChoices, np \in NewPriceChoices, pr \in PromotionChoices,
        asp \in AdSupportedPriceChoices, afp \in AdFreePriceChoices}

(* Segment axis values offered to the mixer: the listed ones and one other *)
AxisChoices(listed) == Range(listed) \cup {"unlisted"}

(* Weight vectors a caller builds itself: one archetype with weight 1 *)
SingleArchetypeWeights ==
    {[num |-> [p \in Profiles |-> IF p = q THEN 100 ELSE 0], den |-> 100] :
        q \in Profiles}

(* Scenarios offered to predict_acquisition *)
AcqPriceChoices ==
    {ABSENT} \cup {Num(c) : c \in {0, 299, 899, 1499, 2100, 2300, 2500, 4000, 400000}}

AcqPromotionChoices ==
    {ABSENT, None, Dict(<<>>), Dict([code |-> Str("SAVE")])} \cup
    {Dict([discount_pct |-> Num(2500 * k)]) : k \in 0..MaxDiscountSteps}

SegmentElasticityChoices ==
    {ABSENT, Num(250)} \cup {Num(-90 * k) : k \in 0..MaxElasticity}

AcquisitionScenarios ==
    {MkDict([new_price |-> np, promotion |-> pr, segment_elasticity |-> se]) :
        np \in AcqPriceChoices, pr \in AcqPromotionChoices,
        se \in SegmentElasticityChoices}

(* Scenarios offered to predict_repeat_loss_by_horizon; price_change_pct in *)
(* hundredths of a percent, baseline_repeat_loss in units of 1/P           *)
PriceChangePctChoices ==
    {ABSENT, Num(-1000), Num(100), Num(1600)} \cup
    {Num(5000 * k) : k \in 0..MaxPctSteps}

BaselineChoices ==
    {ABSENT, Num(0), Num(5 * (P \div 100)), Num(20 * (P \div 100))}

RepeatLossScenarios ==
    {MkDict([price_change_pct |-> pct, baseline_repeat_loss |-> base]) :
        pct \in PriceChangePctChoices, base \in BaselineChoices}

(* Segment records {name, size, elasticity}, elasticity present or not, and *)
(* the lists of them offered to the per-segment entry points                *)
SegmentRecordElasticities ==
    {ABSENT} \cup {Num(e) : e \in {0, -180, 250, -400, -550}}

SegmentChoices ==
    {MkDict([name |-> Str("small"), size |-> Num(1000), elasticity |-> e]) :
        e \in SegmentRecordElasticities}
    \cup {[name |-> Str("large"), size |-> Num(50000), elasticity |-> Num(-180)]}

SegmentLists == UNION {[1..n -> SegmentChoices] : n \in 0..MaxSegments}

(* at a price of 4000.00 np.exp underflows to 0.0 *)
AcqSegmentScenarios ==
    {MkDict([new_price |-> np, promotion |-> pr, segment_elasticity |-> se]) :
        np \in {ABSENT, Num(400000)},
        pr \in {ABSENT, Dict([discount_pct |-> Num(2500)])},
        se \in {ABSENT, Num(-90)}}

RepeatLossSegmentScenarios ==
    {MkDict([price_change_pct |-> pct, baseline_repeat_loss |-> base]) :
        pct \in {Num(-1000), Num(1600)}, base \in {ABSENT, Num(0)}}

(* the module-level coefficient dictionaries *)
Tables ==
    [ACQUISITION_COEFFICIENTS |-> ACQUISITION_COEFFICIENTS,
     REPEAT_LOSS_COEFFICIENTS |-> REPEAT_LOSS_COEFFICIENTS,
     BUNDLE_COEFFICIENTS |-> BUNDLE_COEFFICIENTS,
     BASIC_COEFFICIENTS |-> BASIC_COEFFICIENTS,
     MIGRATION_COEFFICIENTS_2TIER |-> MIGRATION_COEFFICIENTS_2TIER]

-----------------------------------------------------------------------------
Init ==
    /\ pc = "idle"
    /\ arg = <<>>
    /\ ret = <<>>
    /\ heap = [scenario |-> <<>>, segments |-> <<>>, tables |-> Tables,
               random |-> 0]

(* the predictors that take a scenario only read it with .get and [] *)
DetectTierConfig ==
    /\ pc = "idle"
    /\ \E scenario \in MigrationScenarios :
          /\ arg' = scenario
          /\ ret' = detect_tier_config(scenario)
          /\ heap' = [heap EXCEPT !.scenario = scenario]
    /\ pc' = "detect_tier_config"

PredictMigrationMatrix ==
    /\ pc = "idle"
    /\ \E scenario \in MigrationScenarios :
          /\ arg' = scenario
          /\ ret' = predict_migration_matrix(scenario)
          /\ heap' = [heap EXCEPT !.scenario = scenario]
    /\ pc' = "predict_migration_matrix"

GetProfileWeights ==
    /\ pc = "idle"
    /\ \E acq \in AxisChoices(acquisition_segments),
          eng \in AxisChoices(engagement_segments),
          mon \in AxisChoices(monetization_segments) :
          /\ arg' = <<acq, eng, mon>>
          /\ ret' = Ok(get_profile_weights(acq, eng, mon))
    /\ pc' = "get_profile_weights"
    /\ UNCHANGED heap

(* the weights returned by get_profile_weights are blended; the jitter is *)
(* the next draw of the module-level generator                            *)
CalculateSegmentElasticity ==
    /\ pc = "get_profile_weights"
    /\ heap.random < MaxDraws
    /\ arg' = ret.v
    /\ ret' = Ok(calculate_segment_elasticity(ret.v,
                                              random_uniform(heap.random)))
    /\ heap' = [heap EXCEPT !.random = @ + 1]
    /\ pc' = "calculate_segment_elasticity"

(* a weight vector of the caller's own is blended *)
CalculateSegmentElasticityOf ==
    /\ pc = "idle"
    /\ heap.random < MaxDraws
    /\ \E profile_weights \in SingleArchetypeWeights :
          /\ arg' = profile_weights
          /\ ret' = Ok(calculate_segment_elasticity(
                          profile_weights, random_uniform(heap.random)))
    /\ heap' = [heap EXCEPT !.random = @ + 1]
    /\ pc' = "calculate_segment_elasticity"

(* one run of the generation loops, on the generator as earlier calls left *)
(* it                                                                      *)
GenerateSegmentElasticityJson ==
    /\ pc = "idle"
    /\ heap.random + Len(tiers) * KeysPerTier <= Len(SEEDED_UNIFORM)
    /\ LET call == generate_segment_elasticity_json(heap.random)
       IN  /\ arg' = <<>>
           /\ ret' = Ok(call.output)
           /\ heap' = [heap EXCEPT !.random = call.random]
    /\ pc' = "generate_segment_elasticity_json"

PredictAcquisition ==
    /\ pc = "idle"
    /\ \E scenario \in AcquisitionScenarios :
          /\ arg' = scenario
          /\ ret' = Ok(predict_acquisition(scenario))
          /\ heap' = [heap EXCEPT !.scenario = scenario]
    /\ pc' = "predict_acquisition"

PredictAcquisitionBySegment ==
    /\ pc = "idle"
    /\ \E scenario \in AcqSegmentScenarios, segments \in SegmentLists :
          LET call == predict_acquisition_by_segment(scenario, segments)
          IN  /\ arg' = [scenario |-> scenario, segments |-> segments]
              /\ ret' = call.ret
              /\ heap' = [heap EXCEPT !.scenario = call.scenario,
                                      !.segments = call.segments]
    /\ pc' = "predict_acquisition_by_segment"

PredictRepeatLossByHorizon ==
    /\ pc = "idle"
    /\ \E scenario \in RepeatLossScenarios :
          /\ arg' = scenario
          /\ ret' = Ok(predict_repeat_loss_by_horizon(scenario))
          /\ heap' = [heap EXCEPT !.scenario = scenario]
    /\ pc' = "predict_repeat_loss_by_horizon"

PredictRepeatLossBySegment ==
    /\ pc = "idle"
    /\ \E scenario \in RepeatLossSegmentScenarios, segments \in SegmentLists :
          LET call == predict_repeat_loss_by_segment(scenario, segments)
          IN  /\ arg' = [scenario |-> scenario, segments |-> segments]
              /\ ret' = call.ret
              /\ heap' = [heap EXCEPT !.scenario = call.scenario,
                                      !.segments = call.segments]
    /\ pc' = "predict_repeat_loss_by_segment"

(* the caller consumes the result and drops its scenario and segments *)
Return ==
    /\ pc # "idle"
    /\ pc' = "idle"
    /\ arg' = <<>>
    /\ ret' = <<>>
    /\ heap' = [heap EXCEPT !.scenario = <<>>, !.segments = <<>>]

(* the entry points of the predictors of src/python *)
Next ==
    \/ DetectTierConfig
    \/ PredictMigrationMatrix
    \/ PredictAcquisition
    \/ PredictAcquisitionBySegment
    \/ PredictRepeatLossByHorizon
    \/ PredictRepeatLossBySegment
    \/ Return

Spec == Init /\ [][Next]_vars

(* the entry points of src/scripts/regenerate_data_option1.py *)
MixerNext ==
    \/ GetProfileWeights
    \/ CalculateSegmentElasticity
    \/ CalculateSegmentElasticityOf
    \/ GenerateSegmentElasticityJson
    \/ Return

MixerSpec == Init /\ [][MixerNext]_vars

-----------------------------------------------------------------------------
(* A caller that holds one scenario and one list of segments and asks all  *)
(* predictors about them, in any order; the loops over the segments        *)
(* advance one iteration at a time between the other calls.  pc[task] is   *)
(* the progress of a call, ret[task] its results so far, arg the objects   *)
(* as the caller built them and heap the same objects as the calls so far  *)
(* have left them.                                                         *)
Tasks ==
    {"predict_acquisition", "predict_acquisition_by_segment",
     "predict_repeat_loss_by_horizon", "predict_repeat_loss_by_segment",
     "predict_migration_matrix"}

BatchScenarios ==
    {MkDict([new_price |-> np, promotion |-> pr,
             price_change_pct |-> Num(1600)]) :
        np \in {ABSENT, Num(1499)},
        pr \in {ABSENT, Dict([discount_pct |-> Num(2500)])}}

BatchSegmentLists ==
    [1..MaxSegments ->
        {[name |-> Str("small"), size |-> Num(1000), elasticity |-> Num(-550)],
         [name |-> Str("large"), size |-> Num(50000),
          elasticity |-> Num(-180)]}]

BatchInit ==
    /\ \E scenario \in BatchScenarios, segments \in BatchSegmentLists :
          /\ arg = [scenario |-> scenario, segments |-> segments]
          /\ heap = [scenario |-> scenario, segments |-> segments,
                     tables |-> Tables, random |-> 0]
    /\ pc = [task \in Tasks |-> [i |-> 0, done |-> FALSE]]
    /\ ret = [task \in Tasks |-> <<>>]

Finish(task, result) ==
    /\ pc' = [pc EXCEPT ![task] = [i |-> @.i + 1, done |-> TRUE]]
    /\ ret' = [ret EXCEPT ![task] = result]

BatchPredictAcquisition ==
    /\ ~pc["predict_acquisition"].done
    /\ Finish("predict_acquisition", Ok(predict_acquisition(heap.scenario)))
    /\ UNCHANGED <<arg, heap>>

BatchPredictRepeatLossByHorizon ==
    /\ ~pc["predict_repeat_loss_by_horizon"].done
    /\ Finish("predict_repeat_loss_by_horizon",
              Ok(predict_repeat_loss_by_horizon(heap.scenario)))
    /\ UNCHANGED <<arg, heap>>

BatchPredictMigrationMatrix ==
    /\ ~pc["predict_migration_matrix"].done
    /\ Finish("predict_migration_matrix",
              predict_migration_matrix(heap.scenario))
    /\ UNCHANGED <<arg, heap>>

(* one iteration of the loop of predict_acquisition_by_segment, or its     *)
(* return                                                                  *)
BatchAcquisitionSegmentStep ==
    LET task == "predict_acquisition_by_segment"
        i == pc[task].i + 1
    IN  /\ ~pc[task].done
        /\ IF i > Len(heap.segments)
           THEN /\ Finish(task, Ok(ret[task]))
                /\ UNCHANGED heap
           ELSE LET step ==
                        acquisition_segment_body(heap.scenario,
                                                 heap.segments[i])
                IN  /\ heap' = [heap EXCEPT !.scenario = step.scenario]
                    /\ IF step.out.t = "raise"
                       THEN Finish(task, step.out)
                       ELSE /\ pc' = [pc EXCEPT ![task].i = i]
                            /\ ret' = [ret EXCEPT
                                          ![task] = Append(@, step.out.v)]
        /\ UNCHANGED arg

(* one iteration of the loop of predict_repeat_loss_by_segment, or its     *)
(* return                                                                  *)
BatchRepeatLossSegmentStep ==
    LET task == "predict_repeat_loss_by_segment"
        i == pc[task].i + 1
    IN  /\ ~pc[task].done
        /\ IF i > Len(heap.segments)
           THEN Finish(task, Ok(ret[task]))
           ELSE /\ pc' = [pc EXCEPT ![task].i = i]
                /\ ret' = [ret EXCEPT
                              ![task] =
                                  Append(@, repeat_loss_segment_body(
                                                heap.scenario,
                                                heap.segments[i]))]
        /\ UNCHANGED <<arg, heap>>

BatchNext ==
    \/ BatchPredictAcquisition
    \/ BatchPredictRepeatLossByHorizon
    \/ BatchPredictMigrationMatrix
    \/ BatchAcquisitionSegmentStep
    \/ BatchRepeatLossSegmentStep

BatchSpec == BatchInit /\ [][BatchNext]_vars

-----------------------------------------------------------------------------
(* Properties of the migration predictor *)

Origins(matrix) == DOMAIN matrix \ {"tier_config"}

MatrixReturned == pc = "predict_migration_matrix" /\ ret.t = "ok"

(* 1e-6 in units of 1/P *)
Tol6 == P \div 10^6

(* C1: for every scenario and every topology predict_migration_matrix can   *)
(* select, the probabilities reported for each origin tier (stay, every     *)
(* to_* entry, cancel) are each in [0,1] and sum to 1 within 1e-6, also in  *)
(* the 2-tier model, where the slot of the -999 sentinel is dropped and 0   *)
(* is reported in its place.                                                *)
C1_ProbabilitiesSumToOne ==
    MatrixReturned =>
        \A o \in Origins(ret.v) :
            /\ \A d \in DOMAIN ret.v[o] : ret.v[o][d] >= 0 /\ ret.v[o][d] <= P
            /\ Abs(SumOver(ret.v[o], DOMAIN ret.v[o]) - P) <= Tol6

C1_Witness ==
    /\ MatrixReturned
    /\ ret.v.tier_config = "2-tier"
    /\ "promotion" \in DOMAIN arg /\ Truthy(arg.promotion)
    /\ ret.v.from_ad_supported.to_bundle = 0
    /\ ret.v.from_ad_supported.to_ad_free > 0
    /\ ret.v.from_ad_free.to_ad_supported > 0

(* C2: detect_tier_config returns '3-tier-bundle' when the lower-cased      *)
(* label is 'bundle' or 13.99 <= new_price <= 15.99, otherwise              *)
(* '3-tier-basic' when the label is 'basic' or 1.99 <= new_price <= 3.99,   *)
(* otherwise '2-tier'; the bundle test comes first.                         *)
WellTyped(scenario) ==
    /\ Get(scenario, "tier", Str("ad_supported")).t = "str"
    /\ Get(scenario, "new_price", Num(0)).t = "num"

C2_Expected(scenario) ==
    LET label == Lower(Get(scenario, "tier", Str("ad_supported")).v)
        price == Get(scenario, "new_price", Num(0)).v
    IN  IF label = "bundle" \/ (1399 <= price /\ price <= 1599)
        THEN "3-tier-bundle"
        ELSE IF label = "basic" \/ (199 <= price /\ price <= 399)
             THEN "3-tier-basic"
             ELSE "2-tier"

C2_TierDetection ==
    (pc = "detect_tier_config" /\ WellTyped(arg)) =>
        /\ ret = Ok(C2_Expected(arg))
        /\ (Get(arg, "new_price", Num(0)).v \in {1399, 1599}
               => ret.v = "3-tier-bundle")
        /\ ((Get(arg, "new_price", Num(0)).v = 1398
             /\ Lower(Get(arg, "tier", Str("ad_supported")).v)
                   \notin {"bundle", "basic"})
               => ret.v = "2-tier")

C2_Witness ==
    /\ pc = "detect_tier_config"
    /\ "tier" \in DOMAIN arg /\ arg.tier = Str("basic")
    /\ "new_price" \in DOMAIN arg /\ arg.new_price = Num(1399)
    /\ ret = Ok("3-tier-bundle")

(* C3: tier detection is total: for every scenario record (tier and         *)
(* new_price each absent, null or set) detect_tier_config returns one of    *)
(* the three topologies and never raises.                                   *)
C3_DetectionTotal ==
    pc = "detect_tier_config" =>
        ret.t = "ok" /\ ret.v \in {"3-tier-bundle", "3-tier-basic", "2-tier"}

(* C4: the matrix carries tier_config = detect_tier_config(scenario) and    *)
(* exactly the origin tiers of that topology, and for every origin each     *)
(* destination outside the active topology is reported as exactly 0.        *)
C4_OriginsOf(tier_config) ==
    {"from_ad_supported", "from_ad_free"} \cup
    (IF tier_config = "3-tier-bundle" THEN {"from_bundle"} ELSE {}) \cup
    (IF tier_config = "3-tier-basic" THEN {"from_basic"} ELSE {})

C4_MatrixShape ==
    MatrixReturned =>
        /\ detect_tier_config(arg) = Ok(ret.v.tier_config)
        /\ Origins(ret.v) = C4_OriginsOf(ret.v.tier_config)
        /\ \A o \in Origins(ret.v) :
              /\ ret.v.tier_config # "3-tier-bundle" =>
                    "to_bundle" \in DOMAIN ret.v[o] /\ ret.v[o].to_bundle = 0
              /\ ret.v.tier_config # "3-tier-basic" =>
                    "to_basic" \in DOMAIN ret.v[o] /\ ret.v[o].to_basic = 0

C4_Witness ==
    /\ MatrixReturned
    /\ ret.v.tier_config = "3-tier-basic"
    /\ "from_basic" \in DOMAIN ret.v
    /\ ret.v.from_basic.to_bundle = 0
    /\ ret.v.from_ad_supported.to_basic > 0

-----------------------------------------------------------------------------
(* Properties of the profile mixer *)

WeightsReturned == pc = "get_profile_weights"
ProfileReturned == pc = "calculate_segment_elasticity"

Recognised(axes) ==
    \/ axes[1] \in Range(acquisition_segments)
    \/ axes[2] \in Range(engagement_segments)
    \/ axes[3] \in Range(monetization_segments)

Archetypes ==
    {"ultra_loyal", "value_conscious", "deal_hunter", "content_driven",
     "tier_flexible", "premium_seeker", "at_risk"}

Normalised(profile_weights) ==
    /\ profile_weights.den > 0
    /\ SumOver(profile_weights.num, Archetypes) = profile_weights.den

(* C5: for every triple of axis values of which at least one is recognised, *)
(* get_profile_weights returns a weight for each of the seven archetypes,   *)
(* every weight in [0,1] and the weights summing to 1, also when only one   *)
(* or two of the axes are recognised.                                       *)
C5_WeightsSumToOne ==
    (WeightsReturned /\ Recognised(arg)) =>
        /\ ret.t = "ok"
        /\ DOMAIN ret.v.num = Archetypes
        /\ ret.v.den > 0
        /\ \A p \in Archetypes : 0 <= ret.v.num[p] /\ ret.v.num[p] <= ret.v.den
        /\ SumOver(ret.v.num, Archetypes) = ret.v.den

C5_Witness ==
    /\ WeightsReturned
    /\ arg[1] \in Range(acquisition_segments)
    /\ arg[2] \notin Range(engagement_segments)
    /\ arg[3] \notin Range(monetization_segments)
    /\ SumOver(ret.v.num, Archetypes) = ret.v.den
    /\ ret.v.num.at_risk > 0

(* C6: when no axis value contributes any weight, the mixer rejects the     *)
(* input with a failure instead of returning a weight vector or a blended   *)
(* profile.                                                                 *)
C6_AllZeroRejected ==
    /\ (WeightsReturned /\ ~Recognised(arg)) => ret.t = "raise"
    /\ (ProfileReturned /\ \A p \in Archetypes : arg.num[p] = 0)
          => ret.t = "raise"

(* C7: every archetype's 5-bucket time-lag distribution is non-negative and *)
(* sums to 1, and for every normalised weight vector the blended time-lag   *)
(* distribution has five non-negative buckets that sum to 1.                *)
C7_TimeLagIsDistribution ==
    /\ \A p \in Archetypes :
          /\ Len(ELASTICITY_PROFILES[p].time_lag_distribution) = 5
          /\ \A b \in 1..5 : ELASTICITY_PROFILES[p].time_lag_distribution[b] >= 0
          /\ SumSeq(ELASTICITY_PROFILES[p].time_lag_distribution) = 100
    /\ (ProfileReturned /\ Normalised(arg)) =>
          LET dist == ret.v.repeat_loss_axis.time_lag_distribution
          IN  /\ Len(dist) = 5
              /\ \A b \in 1..5 :
                    dist[b].n >= 0 /\ dist[b].d > 0 /\ dist[b].d = dist[1].d
              /\ SumSeq([b \in 1..5 |-> dist[b].n]) = dist[1].d

C7_Witness ==
    /\ ProfileReturned
    /\ Normalised(arg)
    /\ Cardinality({p \in Archetypes : arg.num[p] > 0}) >= 4
    /\ \A b \in 1..5 : ret.v.repeat_loss_axis.time_lag_distribution[b].n > 0

(* C8: the repeat_loss_curve_type returned by calculate_segment_elasticity  *)
(* is the curve type of the archetype holding the largest weight, and of    *)
(* the first such archetype in catalog order when several tie.              *)
CatalogOrder ==
    <<"ultra_loyal", "value_conscious", "deal_hunter", "content_driven",
      "tier_flexible", "premium_seeker", "at_risk">>

C8_FirstLargest(num) ==
    CatalogOrder[CHOOSE i \in 1..7 :
        /\ \A j \in 1..7 : num[CatalogOrder[j]] <= num[CatalogOrder[i]]
        /\ \A j \in 1..(i - 1) : num[CatalogOrder[j]] < num[CatalogOrder[i]]]

C8_DominantCurveType ==
    ProfileReturned =>
        ret.v.repeat_loss_axis.repeat_loss_curve_type =
            ELASTICITY_PROFILES[C8_FirstLargest(arg.num)].repeat_loss_curve_type

C8_Witness ==
    /\ ProfileReturned
    /\ \E p, q \in Archetypes :
          /\ p # q
          /\ arg.num[p] = arg.num[q]
          /\ arg.num[p] > 0
          /\ \A r \in Archetypes : arg.num[r] <= arg.num[p]
          /\ ELASTICITY_PROFILES[p].repeat_loss_curve_type
                # ELASTICITY_PROFILES[q].repeat_loss_curve_type
          /\ ret.v.repeat_loss_axis.repeat_loss_curve_type
                = ELASTICITY_PROFILES[p].repeat_loss_curve_type

-----------------------------------------------------------------------------
(* Properties of the acquisition predictor *)

AcquisitionReturned == pc = "predict_acquisition" /\ ret.t = "ok"

PromotionGiven(scenario) ==
    "promotion" \in DOMAIN scenario /\ Truthy(scenario.promotion)

(* np.exp with the result in units of 1/A *)
ExpAdds(x) == IF x <= 0 THEN np_exp(x) \div (P \div A) ELSE np_exp(x)

(* C9: predicted_adds = exp(6.5 - 0.25*new_price + 0.03*discount_pct        *)
(* + 0.4*is_promo + 0.12*|segment_elasticity|), discount_pct in percent     *)
(* units; for {new_price=8.99, no promotion, segment_elasticity=-1.8} the   *)
(* linear predictor is about 4.469 and predicted_adds is 87.2 within 1.     *)
C9_LinearPredictor(scenario) ==
    LET new_price == Get(scenario, "new_price", Num(899)).v
        discount_pct ==
            IF PromotionGiven(scenario)
            THEN Get(scenario.promotion.v, "discount_pct", Num(0)).v
            ELSE 0
        is_promo == IF PromotionGiven(scenario) THEN 1 ELSE 0
        segment_elasticity == Get(scenario, "segment_elasticity", Num(-180)).v
    IN  650000 - 250 * new_price + 30 * discount_pct + 40000 * is_promo
        + 120 * Abs(segment_elasticity)

C9_PredictedAdds ==
    AcquisitionReturned =>
        /\ ret.v.log_adds = C9_LinearPredictor(arg)
        /\ ret.v.predicted_adds = ExpAdds(C9_LinearPredictor(arg))
        /\ (arg = [new_price |-> Num(899), segment_elasticity |-> Num(-180)]
              => /\ Abs(ret.v.log_adds - 446900) <= 100
                 /\ Abs(ret.v.predicted_adds - 872000) <= 10000)
        /\ (PromotionGiven(arg)
            /\ Get(arg.promotion.v, "discount_pct", Num(0)).v = 5000
              => ret.v.log_adds
                    = C9_LinearPredictor([k \in DOMAIN arg \ {"promotion"} |-> arg[k]])
                      + 150000 + 40000)

C9_Witness ==
    /\ AcquisitionReturned
    /\ arg = [new_price |-> Num(899), segment_elasticity |-> Num(-180)]
    /\ Abs(ret.v.predicted_adds - 872000) <= 10000

(* C10: ci_lower = max(0, adds - 1.96*sqrt(adds)) and ci_upper = adds       *)
(* + 1.96*sqrt(adds), so 0 <= ci_lower <= predicted_adds <= ci_upper, and   *)
(* ci_lower is exactly 0 whenever predicted_adds <= 1.96^2.                 *)
C10_ConfidenceInterval ==
    AcquisitionReturned =>
        LET adds == ret.v.predicted_adds
            margin == (196 * np_sqrt(adds)) \div 100
        IN  /\ ret.v.ci_lower = (IF adds - margin > 0 THEN adds - margin ELSE 0)
            /\ ret.v.ci_upper = adds + margin
            /\ 0 <= ret.v.ci_lower
            /\ ret.v.ci_lower <= adds
            /\ adds <= ret.v.ci_upper
            /\ (adds <= 38416 => ret.v.ci_lower = 0)

C10_Witness ==
    /\ AcquisitionReturned
    /\ ret.v.predicted_adds > 0
    /\ ret.v.predicted_adds <= 38416
    /\ ret.v.ci_lower = 0
    /\ ret.v.ci_upper > ret.v.predicted_adds

(* C11: the elasticity reported by predict_acquisition is -0.25 * new_price *)
(* whatever the promotion and the segment elasticity are, and of two        *)
(* scenarios that differ only in new_price the one with the higher price    *)
(* reports the strictly more negative elasticity.                           *)
C11_PointElasticity ==
    AcquisitionReturned =>
        LET price == Get(arg, "new_price", Num(899)).v
        IN  /\ ret.v.elasticity = -250 * price
            /\ \A np \in AcqPriceChoices \ {ABSENT} :
                  np.v > price =>
                     predict_acquisition(Merge(arg, "new_price", np)).elasticity
                        < ret.v.elasticity

C11_Witness ==
    /\ AcquisitionReturned
    /\ PromotionGiven(arg)
    /\ "segment_elasticity" \in DOMAIN arg /\ arg.segment_elasticity = Num(-360)
    /\ "new_price" \in DOMAIN arg /\ arg.new_price = Num(1499)
    /\ ret.v.elasticity = -374750

-----------------------------------------------------------------------------
(* Properties of the per-segment acquisition predictor *)

AcquisitionBySegmentReturned ==
    pc = "predict_acquisition_by_segment" /\ ret.t = "ok"

(* the scenario of segment i: the scenario with that segment's elasticity *)
SegmentScenario(scenario, segment) ==
    Merge(scenario, "segment_elasticity", segment.elasticity)

(* C12: for every segment predict_acquisition_by_segment reports            *)
(* predicted_adds = predict_acquisition(scenario with the segment's         *)
(* elasticity).predicted_adds * size / 50000 and confidence                 *)
(* = min(15, 100 / sqrt(max(scaled adds, 1))), which lies in (0, 15].       *)
C12_SegmentAddsAndConfidence ==
    AcquisitionBySegmentReturned =>
        \A i \in 1..Len(ret.v) :
            LET segment == arg.segments[i]
                adds ==
                    MulDiv(predict_acquisition(
                               SegmentScenario(arg.scenario, segment)).predicted_adds,
                           segment.size.v, 50000)
            IN  /\ ret.v[i].predicted_adds = adds
                /\ ret.v[i].confidence
                      = Min2(15 * A, MulDiv(100 * A, A, np_sqrt(Max2(adds, A))))
                /\ 0 < ret.v[i].confidence
                /\ ret.v[i].confidence <= 15 * A

-----------------------------------------------------------------------------
(* Properties of the repeat-loss predictor *)

RepeatLossReturned == pc = "predict_repeat_loss_by_horizon" /\ ret.t = "ok"

HorizonNames == {"0-4 Weeks", "4-8 Weeks", "8-12 Weeks", "12+ Weeks"}

(* c_h of the claim, in thousandths *)
C13_HorizonCoefficient(h) ==
    CASE h = "0-4 Weeks" -> 6
      [] h = "4-8 Weeks" -> 18
      [] h = "8-12 Weeks" -> 28
      [] h = "12+ Weeks" -> 8

C14_PeakHorizonOrdering ==
    (RepeatLossReturned /\ Get(arg, "price_change_pct", Num(0)).v > 0) =>
        /\ \A h \in HorizonNames :
              ret.v[h].repeat_loss_uplift
                 <= ret.v["8-12 Weeks"].repeat_loss_uplift
        /\ ret.v["0-4 Weeks"].repeat_loss_uplift
              <= ret.v["12+ Weeks"].repeat_loss_uplift
        /\ ret.v["12+ Weeks"].repeat_loss_uplift
              <= ret.v["4-8 Weeks"].repeat_loss_uplift
        /\ ret.v["4-8 Weeks"].repeat_loss_uplift
              <= ret.v["8-12 Weeks"].repeat_loss_uplift

C14_Witness ==
    /\ RepeatLossReturned
    /\ "price_change_pct" \in DOMAIN arg /\ arg.price_change_pct.v = 100
    /\ "baseline_repeat_loss" \in DOMAIN arg
    /\ ret.v["8-12 Weeks"].repeat_loss_uplift < 0
    /\ ret.v["0-4 Weeks"].repeat_loss_uplift
          < ret.v["12+ Weeks"].repeat_loss_uplift
    /\ ret.v["4-8 Weeks"].repeat_loss_uplift
          < ret.v["8-12 Weeks"].repeat_loss_uplift

RepeatLossBySegmentReturned ==
    pc = "predict_repeat_loss_by_segment" /\ ret.t = "ok"

HasElasticity(segment) == "elasticity" \in DOMAIN segment

(* the multiplier of the claim, in units of 1/H *)
C15_Multiplier(e) == 7000 + (Min2(Abs(e), 400) * 6000) \div 400

(* C15: in predict_repeat_loss_by_segment each of the four values of a      *)
(* segment is the horizon's uplift in percentage points times               *)
(* 0.7 + (min(|elasticity|, 4.0) / 4.0) * 0.6; the multiplier lies in       *)
(* [0.7, 1.3] for either sign and any magnitude, does not decrease with     *)
(* |elasticity| and is 1.3 from |elasticity| = 4 on.                        *)
C15_SegmentMultiplier ==
    RepeatLossBySegmentReturned =>
        LET by_horizon == predict_repeat_loss_by_horizon(arg.scenario)
            pp(h) == by_horizon[h].repeat_loss_uplift_pp
        IN  \A i \in 1..Len(ret.v) : \A h \in HorizonNames :
                LET value == ret.v[i][horizon_key(h)]
                IN  /\ HasElasticity(arg.segments[i]) =>
                          value = MulFrac(pp(h),
                                      C15_Multiplier(arg.segments[i].elasticity.v), H)
                    /\ Abs(value) >= MulFrac(Abs(pp(h)), 7000, H) - 1
                    /\ Abs(value) <= MulFrac(Abs(pp(h)), 13000, H) + 1
                    /\ (HasElasticity(arg.segments[i])
                        /\ Abs(arg.segments[i].elasticity.v) >= 400) =>
                          value = MulFrac(pp(h), 13000, H)
                    /\ \A j \in 1..Len(ret.v) :
                          (HasElasticity(arg.segments[i])
                           /\ HasElasticity(arg.segments[j])
                           /\ Abs(arg.segments[i].elasticity.v)
                                 <= Abs(arg.segments[j].elasticity.v)) =>
                             Abs(value) <= Abs(ret.v[j][horizon_key(h)])

C15_Witness ==
    /\ RepeatLossBySegmentReturned
    /\ Len(ret.v) = 2
    /\ HasElasticity(arg.segments[1]) /\ arg.segments[1].elasticity.v = 250
    /\ HasElasticity(arg.segments[2]) /\ arg.segments[2].elasticity.v = -550
    /\ "price_change_pct" \in DOMAIN arg.scenario
    /\ arg.scenario.price_change_pct.v = 1600
    /\ ret.v[1].repeat_loss_8_12_weeks > 0
    /\ ret.v[1].repeat_loss_8_12_weeks < ret.v[2].repeat_loss_8_12_weeks

-----------------------------------------------------------------------------
(* Defaults, guards and frame of the entry points *)

(* the segment with the documented default elasticity written out *)
WithDefaultElasticity(segment) ==
    IF HasElasticity(segment) THEN segment
    ELSE Merge(segment, "elasticity", Num(-180))

(* C16: in predict_acquisition_by_segment and predict_repeat_loss_by_segment *)
(* a segment record with name and size but no elasticity is not an error:    *)
(* the call returns, and the result of that segment is the one computed for  *)
(* an elasticity of -1.8.                                                    *)
C16_MissingElasticityDefault ==
    /\ pc = "predict_acquisition_by_segment" =>
          /\ ret.t = "ok"
          /\ \A i \in 1..Len(arg.segments) :
                ~HasElasticity(arg.segments[i]) =>
                   ret.v[i].predicted_adds
                      = acquisition_segment_body(
                            arg.scenario,
                            WithDefaultElasticity(arg.segments[i])).out.v.predicted_adds
    /\ pc = "predict_repeat_loss_by_segment" =>
          /\ ret.t = "ok"
          /\ \A i \in 1..Len(arg.segments) :
                ret.v[i] = repeat_loss_segment_body(
                               arg.scenario,
                               WithDefaultElasticity(arg.segments[i]))

(* the scenario with every absent optional field set to its documented      *)
(* default                                                                   *)
WithDefaults(scenario, defaults) ==
    [k \in DOMAIN scenario \cup DOMAIN defaults |->
        IF k \in DOMAIN scenario THEN scenario[k] ELSE defaults[k]]

AcquisitionDefaults ==
    [new_price |-> Num(899), segment_elasticity |-> Num(-180),
     promotion |-> None]

RepeatLossDefaults ==
    [price_change_pct |-> Num(0), baseline_repeat_loss |-> Num(5000000)]

MigrationDefaults ==
    [tier |-> Str("ad_supported"), new_price |-> Num(0), promotion |-> None,
     ad_supported_price |-> Num(599), ad_free_price |-> Num(899)]

(* C17: a scenario that omits optional fields gives the result of the        *)
(* scenario with the documented defaults written out and raises no error:    *)
(* new_price 8.99, segment_elasticity -1.8 and no promotion for              *)
(* predict_acquisition, price_change_pct 0 and baseline_repeat_loss 0.05     *)
(* for predict_repeat_loss_by_horizon, and predict_migration_matrix({}) is   *)
(* the 2-tier matrix for the prices 5.99 and 8.99.                           *)
C17_DefaultsWrittenOut ==
    /\ pc = "predict_acquisition" =>
          /\ ret = Ok(predict_acquisition(WithDefaults(arg, AcquisitionDefaults)))
          /\ arg = <<>> => ret.v.log_adds = 650000 - 250 * 899 + 120 * 180
    /\ pc = "predict_repeat_loss_by_horizon" =>
          /\ ret = Ok(predict_repeat_loss_by_horizon(
                          WithDefaults(arg, RepeatLossDefaults)))
          /\ arg = <<>> =>
                \A h \in HorizonNames :
                    /\ ret.v[h].repeat_loss_rate = logistic(-294400)
                    /\ ret.v[h].repeat_loss_uplift
                          = ret.v[h].repeat_loss_rate - 5000000
    /\ pc = "predict_migration_matrix" =>
          /\ ret = predict_migration_matrix(WithDefaults(arg, MigrationDefaults))
          /\ arg = <<>> =>
                /\ ret.t = "ok"
                /\ ret.v.tier_config = "2-tier"
                /\ ret = predict_migration_matrix(
                             [ad_supported_price |-> Num(599),
                              ad_free_price |-> Num(899)])

C17_Witness ==
    /\ pc = "predict_acquisition"
    /\ arg = <<>>
    /\ ret.t = "ok"
    /\ ret.v = predict_acquisition(
                   [new_price |-> Num(899), segment_elasticity |-> Num(-180)])
    /\ ret.v.predicted_adds > 0

(* C18: whenever the predicted adds of predict_acquisition, or the           *)
(* size-scaled adds of a segment in predict_acquisition_by_segment, is 0,    *)
(* the reported confidence is the documented fallback 0.                     *)
C18_ZeroAddsFallback ==
    /\ AcquisitionReturned =>
          (ret.v.predicted_adds = 0 => ret.v.confidence = 0)
    /\ AcquisitionBySegmentReturned =>
          \A i \in 1..Len(ret.v) :
              ret.v[i].predicted_adds = 0 => ret.v[i].confidence = 0

(* C19: no prediction entry point changes its scenario argument, its         *)
(* segment records or a coefficient table: during and after every call the   *)
(* caller's scenario and segments are what was passed, and the tables are    *)
(* the module's.                                                             *)
C19_InputsNotMutated ==
    /\ pc \in {"predict_acquisition", "predict_repeat_loss_by_horizon",
               "predict_migration_matrix"} =>
          heap.scenario = arg
    /\ pc \in {"predict_acquisition_by_segment",
               "predict_repeat_loss_by_segment"} =>
          /\ heap.scenario = arg.scenario
          /\ heap.segments = arg.segments
    /\ heap.tables = Tables

C19_Witness ==
    /\ AcquisitionBySegmentReturned
    /\ Len(ret.v) = 2
    /\ "segment_elasticity" \notin DOMAIN arg.scenario
    /\ "new_price" \in DOMAIN arg.scenario
    /\ heap.scenario = arg.scenario
    /\ heap.segments = arg.segments

(* the result the call returns for the segment alone *)
AloneAcquisition(scenario, segment) ==
    predict_acquisition_by_segment(scenario, <<segment>>).ret

AloneRepeatLoss(scenario, segment) ==
    predict_repeat_loss_by_segment(scenario, <<segment>>).ret

(* C20: per-segment prediction has no cross-segment interaction: both        *)
(* per-segment entry points return one result per input segment in input     *)
(* order, and the result at position i is the single result of the call      *)
(* with segment i alone, whatever the other segments of the list are.        *)
C20_NoCrossSegmentInteraction ==
    /\ pc = "predict_acquisition_by_segment" =>
          \A i \in 1..Len(arg.segments) :
              AloneAcquisition(arg.scenario, arg.segments[i]).t = "ok" =>
                 /\ ret.t = "ok"
                 /\ Len(ret.v) = Len(arg.segments)
                 /\ ret.v[i] = AloneAcquisition(arg.scenario, arg.segments[i]).v[1]
    /\ pc = "predict_repeat_loss_by_segment" =>
          \A i \in 1..Len(arg.segments) :
              AloneRepeatLoss(arg.scenario, arg.segments[i]).t = "ok" =>
                 /\ ret.t = "ok"
                 /\ Len(ret.v) = Len(arg.segments)
                 /\ ret.v[i] = AloneRepeatLoss(arg.scenario, arg.segments[i]).v[1]

-----------------------------------------------------------------------------
(* Properties that span the predictors and the mixer *)

(* the value of a call made on its own, on the objects as the caller built *)
(* them                                                                    *)
Isolated(task) ==
    CASE task = "predict_acquisition" -> Ok(predict_acquisition(arg.scenario))
      [] task = "predict_acquisition_by_segment" ->
            predict_acquisition_by_segment(arg.scenario, arg.segments).ret
      [] task = "predict_repeat_loss_by_horizon" ->
            Ok(predict_repeat_loss_by_horizon(arg.scenario))
      [] task = "predict_repeat_loss_by_segment" ->
            predict_repeat_loss_by_segment(arg.scenario, arg.segments).ret
      [] task = "predict_migration_matrix" ->
            predict_migration_matrix(arg.scenario)

(* C21: the predictors are deterministic and order-independent: the value   *)
(* a predictor call returns depends only on its arguments and the constant  *)
(* coefficient tables, so predictions over one scenario and its segments,   *)
(* evaluated in any order or interleaving, return what each returns when    *)
(* evaluated on its own, and leave the coefficient tables as they were.     *)
C21_OrderIndependent ==
    /\ \A task \in Tasks : pc[task].done => ret[task] = Isolated(task)
    /\ heap.tables = Tables

C21_Witness ==
    /\ pc["predict_acquisition_by_segment"].i = 1
    /\ ~pc["predict_acquisition_by_segment"].done
    /\ pc["predict_acquisition"].done
    /\ pc["predict_repeat_loss_by_segment"].done
    /\ ~pc["predict_migration_matrix"].done
    /\ arg.segments[1].elasticity.v = -550
    /\ "segment_elasticity" \notin DOMAIN arg.scenario
    /\ ret["predict_acquisition"].v.predicted_adds > 0
GenerateReturned == pc = "generate_segment_elasticity_json"

(* C22: the mixer holds no shared mutable state and its randomness is       *)
(* injectable: the output of calculate_segment_elasticity depends only on   *)
(* its weights and on the random source supplied for that call, so a mix    *)
(* call returns the profile that the same weights and the same source give  *)
(* however many mix calls ran before it, and generate_segment_elasticity_   *)
(* json returns the same data on every invocation in one process.           *)
C22_InjectableRandomness ==
    /\ ProfileReturned =>
          ret.v = calculate_segment_elasticity(arg, random_uniform(0))
    /\ GenerateReturned =>
          ret.v = generate_segment_elasticity_json(0).output
(* sum over the archetypes of weight times the archetype's value of field,  *)
(* in units of 1/(100 * den)                                                *)
WeightedSum(field, profile_weights) ==
    SumOver([p \in Archetypes |->
                ELASTICITY_PROFILES[p][field] * profile_weights.num[p]],
            Archetypes)

(* C23: calculate_segment_elasticity draws exactly one jitter value n in    *)
(* [-0.05, +0.05] per call and returns acquisition elasticity =             *)
(* blended * (1 + n) and repeat-loss elasticity = blended * (1 + n) with    *)
(* the same n, so each is within 5% of its blended value and the two keep   *)
(* the ratio of the blended values; every other output field is the         *)
(* unperturbed blend and profile_weights is the argument.                   *)
C23_SingleJitter ==
    [][(pc' = "calculate_segment_elasticity") =>
          LET n == random_uniform(heap.random)
              d == 100 * arg'.den
              acquisition == WeightedSum("base_acquisition_elasticity", arg')
              repeat_loss == WeightedSum("base_repeat_loss_elasticity", arg')
              out == ret'.v
          IN  /\ heap'.random = heap.random + 1
              /\ -500 <= n /\ n <= 500
              /\ out.acquisition_axis.elasticity
                    = Frac(acquisition * (H + n), d * H)
              /\ out.repeat_loss_axis.elasticity
                    = Frac(repeat_loss * (H + n), d * H)
              /\ Abs(out.acquisition_axis.elasticity.n - acquisition * H)
                    <= 500 * Abs(acquisition)
              /\ Abs(out.repeat_loss_axis.elasticity.n - repeat_loss * H)
                    <= 500 * Abs(repeat_loss)
              /\ out.acquisition_axis.tenure_decay_rate
                    = Frac(WeightedSum("tenure_decay_rate", arg'), d)
              /\ out.acquisition_axis.engagement_offset
                    = Frac(WeightedSum("engagement_offset", arg'), d)
              /\ out.acquisition_axis.price_history_habituation
                    = Frac(WeightedSum("price_history_habituation", arg'), d)
              /\ out.migration_axis.upgrade_willingness
                    = Frac(WeightedSum("base_migration_upgrade", arg'), d)
              /\ out.migration_axis.downgrade_propensity
                    = Frac(WeightedSum("base_migration_downgrade", arg'), d)
              /\ out.migration_axis.asymmetry_factor
                    = Frac(WeightedSum("migration_asymmetry_factor", arg'), d)
              /\ out.repeat_loss_axis.time_lag_distribution
                    = [b \in 1..5 |->
                         Frac(SumOver(
                                 [p \in Archetypes |->
                                    ELASTICITY_PROFILES[p]
                                        .time_lag_distribution[b]
                                    * arg'.num[p]],
                                 Archetypes), d)]
              /\ out.repeat_loss_axis.repeat_loss_curve_type
                    = ELASTICITY_PROFILES[C8_FirstLargest(arg'.num)]
                          .repeat_loss_curve_type
              /\ out.profile_weights = arg']_vars

C23_Witness ==
    /\ ProfileReturned
    /\ heap.random = 2
    /\ random_uniform(1) = -475
    /\ ret.v.acquisition_axis.elasticity.n
          = WeightedSum("base_acquisition_elasticity", arg) * (H - 475)
    /\ ret.v.repeat_loss_axis.elasticity.n
          = WeightedSum("base_repeat_loss_elasticity", arg) * (H - 475)
    /\ ret.v.acquisition_axis.elasticity.n < 0
    /\ ret.v.repeat_loss_axis.elasticity.n > 0
(* the entries of a composite key in the two tiers, and the jitter of each  *)
(* as the loops draw them: the tiers one after the other, the keys of a     *)
(* tier in list order                                                       *)
C24_Entries ==
    {[ad_supported |->
         ret.v.ad_supported.segment_elasticity[
             composite_key(acquisition_segments[i], engagement_segments[j],
                           monetization_segments[k])],
      ad_free |->
         ret.v.ad_free.segment_elasticity[
             composite_key(acquisition_segments[i], engagement_segments[j],
                           monetization_segments[k])],
      ad_supported_draw |->
         SEEDED_UNIFORM[heap.random - 250 + 25 * (i - 1) + 5 * (j - 1) + k],
      ad_free_draw |->
         SEEDED_UNIFORM[heap.random - 125 + 25 * (i - 1) + 5 * (j - 1) + k]] :
        i \in 1..5, j \in 1..5, k \in 1..5}

(* C24: in generate_segment_elasticity_json, for every composite key the    *)
(* ad_free entry has its acquisition elasticity multiplied by 0.75 and its  *)
(* repeat-loss elasticity by 0.70, once, after blending and jitter; the     *)
(* ad_supported entry is the blended and jittered value unscaled; and no    *)
(* other field of a key differs between the two tiers.                      *)
C24_TierScaling ==
    GenerateReturned =>
        \A e \in C24_Entries :
            LET w == e.ad_supported.profile_weights
                d == 100 * w.den * H
                acquisition == WeightedSum("base_acquisition_elasticity", w)
                repeat_loss == WeightedSum("base_repeat_loss_elasticity", w)
                acq_free == acquisition * (H + e.ad_free_draw)
                loss_free == repeat_loss * (H + e.ad_free_draw)
            IN  /\ e.ad_supported.acquisition_axis.elasticity
                      = Frac(acquisition * (H + e.ad_supported_draw), d)
                /\ e.ad_supported.repeat_loss_axis.elasticity
                      = Frac(repeat_loss * (H + e.ad_supported_draw), d)
                /\ e.ad_free.acquisition_axis.elasticity
                      = Frac(3 * (acq_free \div 4)
                                + (3 * (acq_free % 4)) \div 4, d)
                /\ e.ad_free.repeat_loss_axis.elasticity
                      = Frac(7 * (loss_free \div 10)
                                + (7 * (loss_free % 10)) \div 10, d)
                /\ [e.ad_free EXCEPT
                       !.acquisition_axis.elasticity =
                           e.ad_supported.acquisition_axis.elasticity,
                       !.repeat_loss_axis.elasticity =
                           e.ad_supported.repeat_loss_axis.elasticity]
                      = e.ad_supported

C24_Witness ==
    /\ GenerateReturned
    /\ heap.random = 251
    /\ \E e \in C24_Entries :
          /\ e.ad_supported.profile_weights.den = 300
          /\ e.ad_supported_draw > 0
          /\ e.ad_free_draw < 0
          /\ e.ad_free.acquisition_axis.elasticity.n < 0
          /\ e.ad_free.acquisition_axis.elasticity.n
                > e.ad_supported.acquisition_axis.elasticity.n
          /\ e.ad_free.repeat_loss_axis.elasticity.n
                < e.ad_supported.repeat_loss_axis.elasticity.n
          /\ e.ad_free.migration_axis = e.ad_supported.migration_axis
(* the blended scalars: the catalog field and the place of its blend in    *)
(* the returned profile                                                    *)
C25_Scalars ==
    {<<"base_acquisition_elasticity", ret.v.acquisition_axis.elasticity>>,
     <<"base_repeat_loss_elasticity", ret.v.repeat_loss_axis.elasticity>>,
     <<"base_migration_upgrade", ret.v.migration_axis.upgrade_willingness>>,
     <<"base_migration_downgrade", ret.v.migration_axis.downgrade_propensity>>,
     <<"tenure_decay_rate", ret.v.acquisition_axis.tenure_decay_rate>>,
     <<"engagement_offset", ret.v.acquisition_axis.engagement_offset>>,
     <<"price_history_habituation",
       ret.v.acquisition_axis.price_history_habituation>>,
     <<"migration_asymmetry_factor", ret.v.migration_axis.asymmetry_factor>>}

C25_Jittered ==
    {"base_acquisition_elasticity", "base_repeat_loss_elasticity"}

(* C25: every blended scalar of calculate_segment_elasticity (the two       *)
(* elasticities before jitter, upgrade willingness, downgrade propensity,   *)
(* tenure decay rate, engagement offset, habituation, asymmetry factor) is  *)
(* the sum over all archetypes of weight times the archetype's value; for   *)
(* a normalised weight vector it lies between the least and the greatest    *)
(* value among the archetypes with positive weight, and it is the           *)
(* archetype's own value when one archetype has weight 1.                   *)
C25_Blending ==
    (ProfileReturned /\ Normalised(arg)) =>
        \A s \in C25_Scalars :
            LET field == s[1]
                blended == WeightedSum(field, arg)
                positive == {p \in Archetypes : arg.num[p] > 0}
                n == SEEDED_UNIFORM[heap.random]
            IN  /\ s[2] = IF field \in C25_Jittered
                          THEN Frac(blended * (H + n), 100 * arg.den * H)
                          ELSE Frac(blended, 100 * arg.den)
                /\ \E lo, hi \in positive :
                      /\ \A p \in positive :
                            /\ ELASTICITY_PROFILES[lo][field]
                                  <= ELASTICITY_PROFILES[p][field]
                            /\ ELASTICITY_PROFILES[p][field]
                                  <= ELASTICITY_PROFILES[hi][field]
                      /\ ELASTICITY_PROFILES[lo][field] * arg.den <= blended
                      /\ blended <= ELASTICITY_PROFILES[hi][field] * arg.den
                /\ \A p \in Archetypes :
                      arg.num[p] = arg.den =>
                          blended = ELASTICITY_PROFILES[p][field] * arg.den

(* a blend of four or more archetypes that is the value of none of them *)
C25_Witness ==
    /\ ProfileReturned
    /\ Normalised(arg)
    /\ Cardinality({p \in Archetypes : arg.num[p] > 0}) >= 4
    /\ \A p \in Archetypes :
          arg.num[p] > 0 =>
              WeightedSum("base_migration_upgrade", arg)
                  # ELASTICITY_PROFILES[p].base_migration_upgrade * arg.den
    /\ ret.v.migration_axis.upgrade_willingness.n
          = WeightedSum("base_migration_upgrade", arg)

-----------------------------------------------------------------------------
(* Further properties of the migration predictor *)

TwoTierReturned == MatrixReturned /\ ret.v.tier_config = "2-tier"

(* C26: in the 2-tier model the stay utility of each origin is 0, and from  *)
(* ad_supported the upgrade utility is -1.5 - 0.08*gap + 0.4*promo          *)
(* + 0.01*12 and the cancel utility is -2.5 + 0.05*gap - 0.2*promo          *)
(* - 0.02*12, gap = ad_free_price - ad_supported_price; for prices 5.99 and *)
(* 8.99 without promotion the utilities are 0, about -1.62 and about -2.59  *)
(* and the probabilities are stay 0.786, to_ad_free 0.155, to_bundle 0.0,   *)
(* cancel 0.059, each within 0.01.                                          *)
C26_TwoTierUtilities ==
    TwoTierReturned =>
        LET gap == Get(arg, "ad_free_price", Num(899)).v
                   - Get(arg, "ad_supported_price", Num(599)).v
            promo == IF PromotionGiven(arg) THEN 1 ELSE 0
            stay == 0
            upgrade == -150000 - 80 * gap + 40000 * promo + 1000 * 12
            cancel == -250000 + 50 * gap - 20000 * promo - 2000 * 12
            probs == softmax(<<stay, upgrade, -999 * U, cancel>>)
            from == ret.v.from_ad_supported
            back == ret.v.from_ad_free
        IN  /\ from.stay = probs[1]
            /\ from.to_ad_free = probs[2]
            /\ from.to_bundle = 0
            /\ from.cancel = probs[4]
            /\ back.stay
                  = softmax(<<stay, -999 * U,
                              -280000 + 80 * Abs(gap) - 30000 * promo
                                  - 1500 * 12,
                              -250000 + 50 * Abs(gap) - 20000 * promo
                                  - 2000 * 12>>)[1]
            /\ (gap = 300 /\ promo = 0) =>
                  /\ Abs(upgrade + 162000) <= 1000
                  /\ Abs(cancel + 259000) <= 1000
                  /\ Abs(from.stay - 78600000) <= P \div 100
                  /\ Abs(from.to_ad_free - 15500000) <= P \div 100
                  /\ Abs(from.cancel - 5900000) <= P \div 100

C26_Witness ==
    /\ TwoTierReturned
    /\ "ad_free_price" \notin DOMAIN arg
    /\ "ad_supported_price" \notin DOMAIN arg
    /\ ~PromotionGiven(arg)
    /\ Abs(ret.v.from_ad_supported.stay - 78600000) <= P \div 100
    /\ Abs(ret.v.from_ad_supported.to_ad_free - 15500000) <= P \div 100
    /\ Abs(ret.v.from_ad_supported.cancel - 5900000) <= P \div 100
(* the scenario carries a promotion: the key is there and its value is      *)
(* neither null nor an empty record                                         *)
C27_Carries(scenario) ==
    /\ "promotion" \in DOMAIN scenario
    /\ scenario.promotion # None
    /\ scenario.promotion # Dict(<<>>)

C27_Without(scenario) ==
    [k \in DOMAIN scenario \ {"promotion"} |-> scenario[k]]

(* C27: in every predictor the promo indicator is 1 exactly when the        *)
(* scenario carries a promotion and 0 when it does not; without a promotion *)
(* indicator and discount are both 0.  In predict_acquisition the discount  *)
(* term uses the promotion's discount_pct (0 when it has none), so a        *)
(* promotion with discount_pct 0 still contributes the indicator term, and  *)
(* a promotion given as null or as an empty record counts as no promotion.  *)
C27_PromoIndicator ==
    /\ AcquisitionReturned =>
          LET indicator == IF C27_Carries(arg) THEN 1 ELSE 0
              discount ==
                  IF C27_Carries(arg)
                     /\ "discount_pct" \in DOMAIN arg.promotion.v
                  THEN arg.promotion.v.discount_pct.v
                  ELSE 0
          IN  ret.v.log_adds
                = 650000 - 250 * Get(arg, "new_price", Num(899)).v
                  + 120 * Abs(Get(arg, "segment_elasticity", Num(-180)).v)
                  + 30 * discount + 40000 * indicator
    /\ MatrixReturned =>
          IF C27_Carries(arg)
          THEN /\ ret = predict_migration_matrix(
                            Merge(arg, "promotion",
                                  Dict([discount_pct |-> Num(2000)])))
               /\ ret # predict_migration_matrix(C27_Without(arg))
          ELSE ret = predict_migration_matrix(C27_Without(arg))

C27_Witness ==
    /\ AcquisitionReturned
    /\ "new_price" \in DOMAIN arg
    /\ arg.new_price = Num(899)
    /\ "segment_elasticity" \notin DOMAIN arg
    /\ "promotion" \in DOMAIN arg
    /\ arg.promotion = Dict([discount_pct |-> Num(0)])
    /\ ret.v.log_adds = 650000 - 250 * 899 + 120 * 180 + 40000
-----------------------------------------------------------------------------
(* Further properties of the repeat-loss predictor and the generator *)

(* C28: with the repeat-loss coefficients as tuned, a price increase of     *)
(* about 16% (+$1 on a $6 base) with the default baseline 0.05 gives a      *)
(* repeat-loss uplift of 6 to 8 percentage points at the peak horizon       *)
(* '8-12 Weeks', as the comments of the coefficient table state.            *)
C28_TunedPeakUplift ==
    (/\ RepeatLossReturned
     /\ Get(arg, "price_change_pct", Num(0)).v = 1600
     /\ "baseline_repeat_loss" \notin DOMAIN arg) =>
        /\ ret.v["8-12 Weeks"].repeat_loss_uplift_pp >= 6 * PP
        /\ ret.v["8-12 Weeks"].repeat_loss_uplift_pp <= 8 * PP
(* C29: generate_segment_elasticity_json produces 750 segment entries in    *)
(* total, 375 for each of the two tiers ad_supported and ad_free, one per   *)
(* composite key acquisition|engagement|monetization, as the validation     *)
(* step states it expects.                                                  *)
C29_EntryCount ==
    GenerateReturned =>
        /\ DOMAIN ret.v = {"ad_supported", "ad_free"}
        /\ \A tier \in DOMAIN ret.v :
              /\ DOMAIN ret.v[tier].segment_elasticity
                    = {composite_key(acq, eng, mon) :
                          acq \in Range(acquisition_segments),
                          eng \in Range(engagement_segments),
                          mon \in Range(monetization_segments)}
              /\ Cardinality(DOMAIN ret.v[tier].segment_elasticity) = 375
        /\ Cardinality(DOMAIN ret.v.ad_supported.segment_elasticity)
              + Cardinality(DOMAIN ret.v.ad_free.segment_elasticity) = 750
-----------------------------------------------------------------------------
ThreeTierReturned ==
    MatrixReturned /\ ret.v.tier_config \in {"3-tier-bundle", "3-tier-basic"}

(* a scenario that selects the topology by its tier alone, with or without  *)
(* a promotion and with no other field                                      *)
C30_Bare(tier_config, promoted) ==
    LET tier == [tier |-> Str(IF tier_config = "3-tier-bundle"
                              THEN "bundle" ELSE "basic")]
    IN  IF promoted
        THEN Merge(tier, "promotion", Dict([code |-> Str("SAVE")]))
        ELSE tier

C30_Gap(scenario) ==
    Get(scenario, "ad_free_price", Num(899)).v
    - Get(scenario, "ad_supported_price", Num(599)).v

(* C30: for scenarios that select a 3-tier topology the returned matrix     *)
(* depends on the scenario only through whether a promotion is present:     *)
(* scenarios that select the same 3-tier topology and agree on promotion    *)
(* presence get identical matrices whatever their new_price,                *)
(* ad_supported_price, ad_free_price or other fields (the price gap is the  *)
(* constant 3.0, the tenure the constant 12), whereas in the 2-tier model   *)
(* the matrix varies with ad_free_price - ad_supported_price.               *)
C30_ThreeTierIgnoresPrices ==
    /\ ThreeTierReturned =>
          ret = predict_migration_matrix(
                    C30_Bare(ret.v.tier_config, C27_Carries(arg)))
    /\ (TwoTierReturned /\ C30_Gap(arg) # 300) =>
          ret # predict_migration_matrix(
                    [k \in DOMAIN arg
                           \ {"ad_free_price", "ad_supported_price"} |->
                        arg[k]])

C30_Witness ==
    /\ ThreeTierReturned
    /\ ret.v.tier_config = "3-tier-basic"
    /\ "tier" \notin DOMAIN arg
    /\ "new_price" \in DOMAIN arg
    /\ arg.new_price = Num(299)
    /\ C30_Gap(arg) = 1900
    /\ C27_Carries(arg)
    /\ ret = predict_migration_matrix(C30_Bare("3-tier-basic", TRUE))
====
